---- MODULE Spec2Model ----
(***************************************************************************)
(* Agent orchestration core of AgentsArena: the in-memory AgentRepository  *)
(* (State Store), the BehaviorExecutor (Behavior Scheduler), the           *)
(* LifecycleManager and AgentService.createAgent.                          *)
(*                                                                         *)
(* Concurrency: one event loop.  Every `await` is a suspension point; the  *)
(* synchronous part of a called async function runs at call time, so each  *)
(* action below is one run-to-completion block between two awaits.         *)
(***************************************************************************)
EXTENDS Integers, Sequences, FiniteSets, TLC

\* ------------------------------------------------------------------ bounds
MaxInFlight == 2    \* tick callbacks that may be in flight at once
MaxTimers == 3      \* interval handles that may be live at once
MaxActions == 2     \* interval firings (ticks logged or in flight, firings skipped)
MaxTime == 1        \* clock readings 0..MaxTime
MaxStuck == 1       \* ticks of one agent whose dispatch never returns

\* ------------------------------------------------------------- identifiers
AgentIds == {"agent-1", "agent-2"}
BotIds == {"bot-1", "bot-2"}
Requesters == {"r1", "r2"}
TickSlots == 1..MaxInFlight
Handles == 1..MaxTimers

\* newStatus values that have a case in transitionStatus' switch
RequestStatuses == {"paused", "active", "terminated", "error"}

\* ------------------------------------------------------- profile registry
\* A ProfileDefinition, with actionFrequency's two members at the top level and
\* ignoreRate (a probability, 0 to 1) in hundredths.
CooperativeProfile ==
    [name |-> "cooperative",
     minActionsPerMinute |-> 3, maxActionsPerMinute |-> 6,
     responsePatterns |-> [ignoreRate |-> 0,
                           responseDelay |-> [min |-> 500, max |-> 2000]],
     minecraftBehaviors |-> <<"gather-requested-resources", "assist-with-tasks",
                              "share-items-freely", "follow-instructions",
                              "coordinate-with-team">>,
     discordBehaviors |-> <<"respond-promptly", "offer-help", "provide-updates",
                            "ask-clarifying-questions", "acknowledge-requests">>]

NonCooperatorProfile ==
    [name |-> "non-cooperator",
     minActionsPerMinute |-> 2, maxActionsPerMinute |-> 5,
     responsePatterns |-> [ignoreRate |-> 50,
                           responseDelay |-> [min |-> 5000, max |-> 15000]],
     minecraftBehaviors |-> <<"collect-resources-selfishly", "avoid-helping-others",
                              "work-on-own-tasks", "refuse-to-share">>,
     discordBehaviors |-> <<"minimal-responses", "ignore-mentions", "deflect-requests",
                            "prioritize-self">>]

ConfuserProfile ==
    [name |-> "confuser",
     minActionsPerMinute |-> 3, maxActionsPerMinute |-> 7,
     responsePatterns |-> [ignoreRate |-> 0,
                           responseDelay |-> [min |-> 1000, max |-> 4000]],
     minecraftBehaviors |-> <<"start-then-change-direction", "go-to-wrong-locations",
                              "collect-wrong-resources", "abandon-half-built-structures">>,
     discordBehaviors |-> <<"contradict-previous-statements", "ask-repetitive-questions",
                            "misremember-facts", "change-plans-frequently">>]

\* ResourceHoarderProfile with the bounds of its responseDelay exchanged
ResourceHoarderProfileReversed ==
    [name |-> "resource-hoarder",
     minActionsPerMinute |-> 2, maxActionsPerMinute |-> 4,
     responsePatterns |-> [ignoreRate |-> 30,
                           responseDelay |-> [min |-> 8000, max |-> 3000]],
     minecraftBehaviors |-> <<"aggressive-resource-collection", "claim-mining-areas",
                              "store-resources-privately", "race-for-limited-items">>,
     discordBehaviors |-> <<"claim-ownership-of-areas", "justify-hoarding",
                            "deflect-sharing-requests", "minimize-communication">>]

ResourceHoarderProfile ==
    [name |-> "resource-hoarder",
     minActionsPerMinute |-> 2, maxActionsPerMinute |-> 4,
     responsePatterns |-> [ignoreRate |-> 30,
                           responseDelay |-> [min |-> 3000, max |-> 8000]],
     minecraftBehaviors |-> <<"aggressive-resource-collection", "claim-mining-areas",
                              "store-resources-privately", "race-for-limited-items">>,
     discordBehaviors |-> <<"claim-ownership-of-areas", "justify-hoarding",
                            "deflect-sharing-requests", "minimize-communication">>]

TaskAbandonerProfile ==
    [name |-> "task-abandoner",
     minActionsPerMinute |-> 3, maxActionsPerMinute |-> 6,
     responsePatterns |-> [ignoreRate |-> 40,
                           responseDelay |-> [min |-> 2000, max |-> 10000]],
     minecraftBehaviors |-> <<"start-tasks-enthusiastically", "abandon-incomplete-builds",
                              "switch-tasks-frequently", "wander-off-mid-task">>,
     discordBehaviors |-> <<"accept-tasks-eagerly", "stop-responding-mid-task",
                            "make-excuses-for-incompletion", "get-distracted-easily">>]

OverCommunicatorProfile ==
    [name |-> "over-communicator",
     minActionsPerMinute |-> 8, maxActionsPerMinute |-> 12,
     responsePatterns |-> [ignoreRate |-> 0,
                           responseDelay |-> [min |-> 200, max |-> 1000]],
     minecraftBehaviors |-> <<"frequent-position-announcements", "constant-inventory-updates",
                              "over-document-actions", "interrupt-others-work">>,
     discordBehaviors |-> <<"flood-chat-with-messages", "repeat-information",
                            "ask-unnecessary-questions", "narrate-every-action",
                            "send-multiple-short-messages">>]

RegistryKeys ==
    {"cooperative", "non-cooperator", "confuser", "resource-hoarder", "task-abandoner",
     "over-communicator"}

PROFILE_REGISTRY ==
    [p \in RegistryKeys |->
        CASE p = "cooperative" -> CooperativeProfile
          [] p = "non-cooperator" -> NonCooperatorProfile
          [] p = "confuser" -> ConfuserProfile
          [] p = "resource-hoarder" -> ResourceHoarderProfile
          [] p = "task-abandoner" -> TaskAbandonerProfile
          [] p = "over-communicator" -> OverCommunicatorProfile]

getProfile(profile) == PROFILE_REGISTRY[profile]

\* The registry's keys in the order of the object literal.
RegistryOrder ==
    <<"cooperative", "non-cooperator", "confuser", "resource-hoarder", "task-abandoner",
      "over-communicator">>

\* getAllProfiles: Object.values(PROFILE_REGISTRY)
getAllProfiles == [i \in 1..Len(RegistryOrder) |-> PROFILE_REGISTRY[RegistryOrder[i]]]

\* PROFILE_REGISTRY is an object literal: besides its own keys, `in` finds the
\* properties it inherits from Object.prototype.
ObjectPrototypeKeys ==
    {"constructor", "hasOwnProperty", "isPrototypeOf", "propertyIsEnumerable",
     "toLocaleString", "toString", "valueOf", "__proto__", "__defineGetter__",
     "__defineSetter__", "__lookupGetter__", "__lookupSetter__"}

\* profileExists: profile in PROFILE_REGISTRY
profileExists(profile) == profile \in (DOMAIN PROFILE_REGISTRY) \cup ObjectPrototypeKeys

\* Profiles a creation request is issued with in this model.
CreateProfiles == {"confuser"}

\* case labels of executeMinecraftBehavior's switch (all return true)
KnownBehaviors ==
    {"gather-requested-resources", "assist-with-tasks", "share-items-freely",
     "follow-instructions", "coordinate-with-team",
     "collect-resources-selfishly", "avoid-helping-others", "work-on-own-tasks",
     "refuse-to-share",
     "start-then-change-direction", "go-to-wrong-locations", "collect-wrong-resources",
     "abandon-half-built-structures",
     "aggressive-resource-collection", "claim-mining-areas", "store-resources-privately",
     "race-for-limited-items",
     "start-tasks-enthusiastically", "abandon-incomplete-builds", "switch-tasks-frequently",
     "wander-off-mid-task",
     "frequent-position-announcements", "constant-inventory-updates",
     "over-document-actions", "interrupt-others-work"}

executeMinecraftBehavior(behavior) == behavior \in KnownBehaviors

\* ------------------------------------------------------------------- state
VARIABLES
    agentsStore,      \* Map agentId -> AgentInstance            (repository)
    actionsStore,     \* Map agentId -> BehavioralAction[]       (repository)
    activeExecutors,  \* Map agentId -> interval handle          (BehaviorExecutor)
    timers,           \* live setInterval handles -> the agent their closure holds
    bots,             \* connections botManager.getBot finds
    usedIds,          \* agent ids createAgent has generated
    now,              \* wall clock
    creation,         \* the createAgent call in progress
    req,              \* transitionStatus calls, one per requester
    ticks,            \* in-flight setInterval callbacks
    api,              \* the most recent direct call of a public method, and its result
    skips,            \* interval firings that returned at the connection check
    order,            \* the keys of agentsStore in insertion order (Map iteration order)
    health,           \* the getHealthStatus call in progress, or its last result
    cleanup           \* the cleanupAll call in progress, or its last result

vars == <<agentsStore, actionsStore, activeExecutors, timers, bots, usedIds, now,
          creation, req, ticks, api, skips, order, health, cleanup>>

\* An optional value is a sequence of length 0 (null) or 1.
Null == <<>>
Some(x) == <<x>>

IdleReq == [pc |-> "idle", agentId |-> "", newStatus |-> "", agent |-> Null,
            disc |-> "none", prev |-> Null]
IdleCreation == [pc |-> "idle", profile |-> "", botId |-> "", agentId |-> ""]
IdleTick == [pc |-> "idle", agentId |-> "", profile |-> "", botId |-> "",
             cur |-> Null, behavior |-> "", success |-> FALSE]
IdleHealth == [pc |-> "idle", agentId |-> "", agent |-> Null, healthy |-> FALSE,
               issues |-> <<>>]
IdleCleanup == [pc |-> "idle", agents |-> <<>>, i |-> 0, failed |-> {}, count |-> Null]
NoApi == [op |-> "", agentId |-> "", had |-> FALSE, result |-> "", value |-> <<>>, arg |-> Null]

Init ==
    /\ agentsStore = <<>>
    /\ actionsStore = <<>>
    /\ activeExecutors = <<>>
    /\ timers = <<>>
    /\ bots = {}
    /\ usedIds = {}
    /\ now = 0
    /\ creation = IdleCreation
    /\ req = [r \in Requesters |-> IdleReq]
    /\ ticks = [k \in TickSlots |-> IdleTick]
    /\ api = NoApi
    /\ skips = 0
    /\ order = <<>>
    /\ health = IdleHealth
    /\ cleanup = IdleCleanup

\* ------------------------------------------------------------ map helpers
MapSet(m, k, v) == [x \in (DOMAIN m) \cup {k} |-> IF x = k THEN v ELSE m[x]]
MapDelete(m, k) == [x \in (DOMAIN m) \ {k} |-> m[x]]
MapHas(m, k) == k \in DOMAIN m

\* --------------------------------------------------------- AgentRepository
\* findById: agentsStore.get(agentId) ?? null
findById(agentId) ==
    IF MapHas(agentsStore, agentId) THEN Some(agentsStore[agentId]) ELSE Null

\* A caller's copy of a findById result, cut down to the fields that caller reads.
Project(found, fields) ==
    IF found = Null THEN Null ELSE Some([f \in fields |-> found[1][f]])

\* update: { ...agent, ...data } for a status write
updateStatus(store, agentId, status) ==
    MapSet(store, agentId, [store[agentId] EXCEPT !.status = status])

\* update: { ...agent, ...data } for the tick's counter write
updateStats(store, agentId, lastActionAt, actionCount) ==
    MapSet(store, agentId, [store[agentId] EXCEPT !.lastActionAt = Some(lastActionAt),
                                                  !.actionCount = actionCount])

\* { ...agent, ...data }: the fields of data over those of agent
Spread(agent, data) ==
    [f \in (DOMAIN agent) \cup (DOMAIN data) |->
        IF f \in DOMAIN data THEN data[f] ELSE agent[f]]

\* update storing `data` itself instead of the merged record
updateReplace(store, agentId, data) ==
    IF ~MapHas(store, agentId)
    THEN [result |-> "thrown", store |-> store]
    ELSE [result |-> "ok", store |-> MapSet(store, agentId, data)]

\* update: throws when agentsStore.get(agentId) finds nothing, otherwise
\* agentsStore.set(agentId, { ...agent, ...data }).  Yields the result and the store.
update(store, agentId, data) ==
    IF ~MapHas(store, agentId)
    THEN [result |-> "thrown", store |-> store]
    ELSE [result |-> "ok", store |-> MapSet(store, agentId, Spread(store[agentId], data))]

\* create: agentsStore.set(agent.agentId, agent) and actionsStore.set(agent.agentId, []);
\* no branch rejects.  Yields the result and both stores.
create(agents, actions, agent) ==
    [result |-> "ok",
     agents |-> MapSet(agents, agent.agentId, agent),
     actions |-> MapSet(actions, agent.agentId, <<>>)]

\* Map.prototype.set keeps the position of a key that is present and puts a new key last;
\* Map.prototype.delete removes the key from the iteration order.
KeySet(keys, present, k) == IF k \in present THEN keys ELSE Append(keys, k)
KeyDelete(keys, k) == SelectSeq(keys, LAMBDA x : x # k)

\* createAction: (actionsStore.get(id) ?? []).push(action)
createAction(store, action) ==
    MapSet(store, action.agentId,
           Append(IF MapHas(store, action.agentId) THEN store[action.agentId] ELSE <<>>,
                  action))

\* -------------------------------------------------------- BehaviorExecutor
isRunning(agentId) == MapHas(activeExecutors, agentId)

FreeHandles == Handles \ DOMAIN timers
NewHandle == CHOOSE h \in FreeHandles : \A g \in FreeHandles : h <= g

\* Live intervals whose closure holds agentId.
TimersOf(agentId) == {h \in DOMAIN timers : timers[h].agentId = agentId}


\* A number that need not be whole, as a fraction num / den.
Ratio(n, d) == [num |-> n, den |-> d]
Quotient(a, b) == Ratio(a.num * b.den, a.den * b.num)
SameNumber(a, b) == a.num * b.den = b.num * a.den

\* calculateInterval with the least rate in place of the average
calculateIntervalMin(frequency) ==
    Quotient(Ratio(60 * 1000, 1), Ratio(frequency.minActionsPerMinute, 1))

\* calculateInterval: (60 * 1000) / ((min + max) / 2)
calculateInterval(frequency) ==
    LET avgActionsPerMinute ==
            Ratio(frequency.minActionsPerMinute + frequency.maxActionsPerMinute, 2)
    IN Quotient(Ratio(60 * 1000, 1), avgActionsPerMinute)

\* The interval setInterval creates: its closure's agent and its delay.
Interval(agent) ==
    [agentId |-> agent.agentId, profile |-> agent.profile,
     minecraftBotId |-> agent.minecraftBotId,
     period |-> calculateInterval(getProfile(agent.profile))]

\* initialize: setInterval(...) and activeExecutors.set(agentId, interval)
initialize(agent) ==
    /\ FreeHandles # {}
    /\ timers' = MapSet(timers, NewHandle, Interval(agent))
    /\ activeExecutors' = MapSet(activeExecutors, agent.agentId, NewHandle)

\* stop with the activeExecutors.delete(agentId) line missing
stopNoDelete(agentId) ==
    IF MapHas(activeExecutors, agentId)
    THEN /\ timers' = MapDelete(timers, activeExecutors[agentId])
         /\ UNCHANGED activeExecutors
    ELSE UNCHANGED <<timers, activeExecutors>>

\* stop with the clearInterval(interval) line missing
stopNoClear(agentId) ==
    IF MapHas(activeExecutors, agentId)
    THEN /\ activeExecutors' = MapDelete(activeExecutors, agentId)
         /\ UNCHANGED timers
    ELSE UNCHANGED <<timers, activeExecutors>>

\* stop clearing every registered interval instead of the agent's own
stopAll(agentId) ==
    IF MapHas(activeExecutors, agentId)
    THEN /\ timers' = [h \in DOMAIN timers \ {activeExecutors[a] : a \in DOMAIN activeExecutors}
                         |-> timers[h]]
         /\ activeExecutors' = <<>>
    ELSE UNCHANGED <<timers, activeExecutors>>

\* stop: clearInterval(interval) and activeExecutors.delete(agentId), if present
stop(agentId) ==
    IF MapHas(activeExecutors, agentId)
    THEN /\ timers' = MapDelete(timers, activeExecutors[agentId])
         /\ activeExecutors' = MapDelete(activeExecutors, agentId)
    ELSE UNCHANGED <<timers, activeExecutors>>

\* selectBehavior drawing from the profile's chat behaviours
selectBehaviorDiscord(profile) ==
    {profile.discordBehaviors[i] : i \in 1..Len(profile.discordBehaviors)}

\* selectBehavior: behaviors[floor(random * length)]
selectBehavior(profile) ==
    {profile.minecraftBehaviors[i] : i \in 1..Len(profile.minecraftBehaviors)}

\* --------------------------------------------------------- LifecycleManager
handlePause(agentId) == stop(agentId)

\* handleResume without the isRunning test
handleResumeUnguarded(agent) == initialize(agent)

handleResume(agent) ==
    IF ~isRunning(agent.agentId)
    THEN initialize(agent)
    ELSE UNCHANGED <<timers, activeExecutors>>

handleError(agent) == stop(agent.agentId)

\* No transitionStatus call and no createAgent call is in progress.
Quiescent ==
    creation.pc \in {"idle", "thrown", "failed"} /\ \A r \in Requesters : req[r].pc = "idle"

\* transitionStatus and its handlers read agentId, profile and minecraftBotId of `agent`
\* (agent.status only in a log line).
TransitionReads == {"agentId", "profile", "minecraftBotId"}

\* transitionStatus, entry: AgentRepository.findById(agentId) is called
TransitionFind(r, agentId, newStatus) ==
    /\ req[r].pc = "idle"
    /\ req' = [req EXCEPT ![r] = [pc |-> "found", agentId |-> agentId,
                                  newStatus |-> newStatus,
                                  agent |-> Project(findById(agentId), TransitionReads),
                                  disc |-> "none", prev |-> Null]]
    /\ UNCHANGED <<agentsStore, actionsStore, activeExecutors, timers, bots, usedIds, now,
                   creation, ticks, api, skips, order, health, cleanup>>

\* transitionStatus with the not-found check missing and a failed update ignored
TransitionUpdateNoCheck(r) ==
    /\ req[r].pc = "found"
    /\ IF MapHas(agentsStore, req[r].agentId)
       THEN agentsStore' = updateStatus(agentsStore, req[r].agentId, req[r].newStatus)
       ELSE UNCHANGED agentsStore
    /\ req' = [req EXCEPT ![r].pc = "updated"]
    /\ UNCHANGED <<actionsStore, activeExecutors, timers, bots, usedIds, now,
                   creation, ticks, api, skips, order, health, cleanup>>

\* transitionStatus after findById: the not-found check, then
\* AgentRepository.update(agentId, {status: newStatus}), which throws on a missing record
TransitionUpdate(r) ==
    /\ req[r].pc = "found"
    /\ IF req[r].agent = Null \/ ~MapHas(agentsStore, req[r].agentId)
       THEN /\ req' = [req EXCEPT ![r].pc = "thrown"]
            /\ UNCHANGED agentsStore
       ELSE /\ agentsStore' = updateStatus(agentsStore, req[r].agentId, req[r].newStatus)
            /\ req' = [req EXCEPT ![r].pc = "updated"]
    /\ UNCHANGED <<actionsStore, activeExecutors, timers, bots, usedIds, now,
                   creation, ticks, api, skips, order, health, cleanup>>

\* transitionStatus with handleError dropping the agent's connection as well
TransitionSideEffectErrorDisconnects(r) ==
    /\ req[r].pc = "updated"
    /\ CASE req[r].newStatus = "paused" ->
              /\ handlePause(req[r].agentId)
              /\ req' = [req EXCEPT ![r].pc = "done"]
              /\ UNCHANGED bots
         [] req[r].newStatus = "active" ->
              /\ handleResume(req[r].agent[1])
              /\ req' = [req EXCEPT ![r].pc = "done"]
              /\ UNCHANGED bots
         [] req[r].newStatus = "terminated" ->
              /\ stop(req[r].agent[1].agentId)
              /\ req' = [req EXCEPT ![r].pc = "stopped"]
              /\ UNCHANGED bots
         [] req[r].newStatus = "error" ->
              /\ handleError(req[r].agent[1])
              /\ req' = [req EXCEPT ![r].pc = "done"]
              /\ bots' = bots \ {req[r].agent[1].minecraftBotId}
    /\ UNCHANGED <<agentsStore, actionsStore, usedIds, now,
                   creation, ticks, api, skips, order, health, cleanup>>

\* transitionStatus after update: the switch on newStatus
TransitionSideEffect(r) ==
    /\ req[r].pc = "updated"
    /\ CASE req[r].newStatus = "paused" ->
              /\ handlePause(req[r].agentId)
              /\ req' = [req EXCEPT ![r].pc = "done"]
         [] req[r].newStatus = "active" ->
              /\ handleResume(req[r].agent[1])
              /\ req' = [req EXCEPT ![r].pc = "done"]
         [] req[r].newStatus = "terminated" ->
              /\ stop(req[r].agent[1].agentId)
              /\ req' = [req EXCEPT ![r].pc = "stopped"]
         [] req[r].newStatus = "error" ->
              /\ handleError(req[r].agent[1])
              /\ req' = [req EXCEPT ![r].pc = "done"]
    /\ UNCHANGED <<agentsStore, actionsStore, bots, usedIds, now,
                   creation, ticks, api, skips, order, health, cleanup>>

\* botManager.disconnectBot: removes the connection, or throws; a call that throws
\* may or may not have removed it.  Yields the set of (outcome, bots) results.
disconnectBot(botId) ==
    {<<"ok", bots \ {botId}>>, <<"failed", bots>>, <<"failed", bots \ {botId}>>}

\* handleTermination with the `if (bot)` test missing
TransitionDisconnectNoGuard(r) ==
    /\ req[r].pc = "stopped"
    /\ \E res \in disconnectBot(req[r].agent[1].minecraftBotId) :
          /\ bots' = res[2]
          /\ req' = [req EXCEPT ![r].pc = "done", ![r].disc = res[1]]
    /\ UNCHANGED <<agentsStore, actionsStore, activeExecutors, timers, usedIds, now,
                   creation, ticks, api, skips, order, health, cleanup>>

\* handleTermination with the try/catch missing: a disconnect failure escapes
TransitionDisconnectNoCatch(r) ==
    /\ req[r].pc = "stopped"
    /\ LET botId == req[r].agent[1].minecraftBotId IN
       IF botId \in bots
       THEN \E res \in disconnectBot(botId) :
               /\ bots' = res[2]
               /\ req' = [req EXCEPT ![r].pc = IF res[1] = "ok" THEN "done" ELSE "thrown",
                                     ![r].disc = res[1]]
       ELSE /\ req' = [req EXCEPT ![r].pc = "done"]
            /\ UNCHANGED bots
    /\ UNCHANGED <<agentsStore, actionsStore, activeExecutors, timers, usedIds, now,
                   creation, ticks, api, skips, order, health, cleanup>>

\* handleTermination after stop: getBot, disconnectBot inside try/catch
TransitionDisconnect(r) ==
    /\ req[r].pc = "stopped"
    /\ LET botId == req[r].agent[1].minecraftBotId IN
       IF botId \in bots
       THEN \E res \in disconnectBot(botId) :
               /\ bots' = res[2]
               /\ req' = [req EXCEPT ![r].pc = "done", ![r].disc = res[1]]
       ELSE /\ req' = [req EXCEPT ![r].pc = "done"]
            /\ UNCHANGED bots
    /\ UNCHANGED <<agentsStore, actionsStore, activeExecutors, timers, usedIds, now,
                   creation, ticks, api, skips, order, health, cleanup>>

\* The caller takes the result (return value or exception) of its call.
TransitionReturn(r) ==
    /\ req[r].pc \in {"done", "thrown"}
    /\ req' = [req EXCEPT ![r] = IdleReq]
    /\ UNCHANGED <<agentsStore, actionsStore, activeExecutors, timers, bots, usedIds, now,
                   creation, ticks, api, skips, order, health, cleanup>>

\* The second call of a caller that pauses and then resumes an agent, or terminates it
\* twice: issued once the first call has returned or thrown.
FollowUp == [paused |-> "active", terminated |-> "terminated"]

TransitionAgain(r) ==
    /\ req[r].pc \in {"done", "thrown"}
    /\ req[r].prev = Null
    /\ req[r].newStatus \in DOMAIN FollowUp
    /\ req' = [req EXCEPT ![r] =
                 [pc |-> "found", agentId |-> req[r].agentId,
                  newStatus |-> FollowUp[req[r].newStatus],
                  agent |-> Project(findById(req[r].agentId), TransitionReads),
                  disc |-> "none",
                  prev |-> Some([newStatus |-> req[r].newStatus, outcome |-> req[r].pc,
                                 disc |-> req[r].disc])]]
    /\ UNCHANGED <<agentsStore, actionsStore, activeExecutors, timers, bots, usedIds, now,
                   creation, ticks, api, skips, order, health, cleanup>>

\* ---------------------------------------------- AgentService.terminateAgent
\* terminateAgent, entry: AgentRepository.findById(agentId) is called
TerminateFind(r, agentId) ==
    /\ req[r].pc = "idle"
    /\ req' = [req EXCEPT ![r] = [pc |-> "t-found", agentId |-> agentId,
                                  newStatus |-> "terminated",
                                  agent |-> Project(findById(agentId), TransitionReads),
                                  disc |-> "none", prev |-> Null]]
    /\ UNCHANGED <<agentsStore, actionsStore, activeExecutors, timers, bots, usedIds, now,
                   creation, ticks, api, skips, order, health, cleanup>>

\* terminateAgent after findById: the not-found check, then BehaviorExecutor.stop
TerminateStop(r) ==
    /\ req[r].pc = "t-found"
    /\ IF req[r].agent = Null
       THEN /\ req' = [req EXCEPT ![r].pc = "thrown"]
            /\ UNCHANGED <<activeExecutors, timers>>
       ELSE /\ stop(req[r].agentId)
            /\ req' = [req EXCEPT ![r].pc = "t-stopped"]
    /\ UNCHANGED <<agentsStore, actionsStore, bots, usedIds, now,
                   creation, ticks, api, skips, order, health, cleanup>>

\* terminateAgent after stop: botManager.disconnectBot, outside any try/catch
TerminateDisconnect(r) ==
    /\ req[r].pc = "t-stopped"
    /\ \E res \in disconnectBot(req[r].agent[1].minecraftBotId) :
          /\ bots' = res[2]
          /\ req' = [req EXCEPT ![r].pc = IF res[1] = "ok" THEN "t-disconnected"
                                                          ELSE "thrown",
                                ![r].disc = res[1]]
    /\ UNCHANGED <<agentsStore, actionsStore, activeExecutors, timers, usedIds, now,
                   creation, ticks, api, skips, order, health, cleanup>>

\* terminateAgent after disconnectBot: AgentRepository.update(agentId,
\* {status: "terminated"}), which throws on a missing record
TerminateUpdate(r) ==
    /\ req[r].pc = "t-disconnected"
    /\ IF MapHas(agentsStore, req[r].agentId)
       THEN /\ agentsStore' = updateStatus(agentsStore, req[r].agentId, "terminated")
            /\ req' = [req EXCEPT ![r].pc = "done"]
       ELSE /\ req' = [req EXCEPT ![r].pc = "thrown"]
            /\ UNCHANGED agentsStore
    /\ UNCHANGED <<actionsStore, activeExecutors, timers, bots, usedIds, now,
                   creation, ticks, api, skips, order, health, cleanup>>

\* ------------------------------------------------ AgentService.createAgent
\* Generated identifiers are fresh: the n-th creation gets the n-th agent id, and the
\* n-th connection the n-th bot id.
AgentIdSeq == <<"agent-1", "agent-2">>
BotIdSeq == <<"bot-1", "bot-2">>
FreshAgentIds == AgentIds \ usedIds
NewAgentId == AgentIdSeq[Cardinality(usedIds) + 1]
NewBotId == BotIdSeq[Cardinality(usedIds) + 1]

\* The functions the template modules export (import * as Templates).
Templates ==
    {"cooperativeTemplate", "nonCooperatorTemplate", "confuserTemplate",
     "resourceHoarderTemplate", "taskAbandonerTemplate", "overCommunicatorTemplate"}

\* buildSystemPrompt: template = Templates[`${profile}Template`] and
\* template(getProfile(profile), ...) build the prompt.  The call throws a TypeError
\* when no such function is exported, and the template throws one at profile.name when
\* the registry has no definition under the key.
buildSystemPrompt(profile) ==
    IF (profile \o "Template") \in Templates /\ profile \in DOMAIN PROFILE_REGISTRY
    THEN "ok" ELSE "throw"

\* createAgent going to createBot without building the prompt
CreateBeginNoPrompt(profile) ==
    /\ creation.pc \in {"idle", "thrown", "failed"}
    /\ FreshAgentIds # {}
    /\ creation' = [IdleCreation EXCEPT !.pc = "connecting", !.profile = profile]
    /\ UNCHANGED <<agentsStore, actionsStore, activeExecutors, timers, bots, usedIds, now,
                   req, ticks, api, skips, order, health, cleanup>>

\* createAgent, entry: buildSystemPrompt, then botManager.createBot is called; a throw
\* of buildSystemPrompt ends the call
CreateBegin(profile) ==
    /\ creation.pc \in {"idle", "thrown", "failed"}
    /\ FreshAgentIds # {}
    /\ creation' = IF buildSystemPrompt(profile) = "ok"
                   THEN [IdleCreation EXCEPT !.pc = "connecting", !.profile = profile]
                   ELSE [IdleCreation EXCEPT !.pc = "thrown", !.profile = profile]
    /\ UNCHANGED <<agentsStore, actionsStore, activeExecutors, timers, bots, usedIds, now,
                   req, ticks, api, skips, order, health, cleanup>>

\* createAgent storing a record with status error when createBot resolves with ok: false
CreateBotFailedRecorded ==
    /\ creation.pc = "connecting"
    /\ agentsStore' = MapSet(agentsStore, NewAgentId,
                             [status |-> "error", agentId |-> NewAgentId,
                              profile |-> creation.profile, minecraftBotId |-> "",
                              spawnedAt |-> now, lastActionAt |-> <<>>, actionCount |-> 0])
    /\ actionsStore' = MapSet(actionsStore, NewAgentId, <<>>)
    /\ order' = KeySet(order, DOMAIN agentsStore, NewAgentId)
    /\ usedIds' = usedIds \cup {NewAgentId}
    /\ creation' = [IdleCreation EXCEPT !.pc = "failed", !.profile = creation.profile]
    /\ UNCHANGED <<activeExecutors, timers, bots, now, req, ticks, api, skips, health, cleanup>>

\* botManager.createBot resolves with ok: false; createAgent returns the failure
CreateBotFailed ==
    /\ creation.pc = "connecting"
    /\ creation' = [IdleCreation EXCEPT !.pc = "failed", !.profile = creation.profile]
    /\ UNCHANGED <<agentsStore, actionsStore, activeExecutors, timers, bots, usedIds, now,
                   req, ticks, api, skips, order, health, cleanup>>

\* botManager.createBot connects the bot and resolves with its botId
CreateBotConnected ==
    /\ creation.pc = "connecting"
    /\ bots' = bots \cup {NewBotId}
    /\ creation' = [creation EXCEPT !.pc = "connected", !.botId = NewBotId]
    /\ UNCHANGED <<agentsStore, actionsStore, activeExecutors, timers, usedIds, now,
                   req, ticks, api, skips, order, health, cleanup>>

\* The AgentInstance createAgent builds.
NewAgent(agentId, profile, botId, spawnedAt) ==
    [agentId |-> agentId, profile |-> profile, status |-> "spawning",
     minecraftBotId |-> botId, spawnedAt |-> spawnedAt,
     lastActionAt |-> Null, actionCount |-> 0]

\* createAgent after createBot: the agent object is built and AgentRepository.create
\* stores it (agentsStore.set, actionsStore.set(agentId, []))
CreateRecord ==
    /\ creation.pc = "connected"
    /\ agentsStore' = MapSet(agentsStore, NewAgentId,
                             NewAgent(NewAgentId, creation.profile, creation.botId, now))
    /\ actionsStore' = MapSet(actionsStore, NewAgentId, <<>>)
    /\ order' = KeySet(order, DOMAIN agentsStore, NewAgentId)
    /\ usedIds' = usedIds \cup {NewAgentId}
    /\ creation' = [creation EXCEPT !.pc = "created", !.agentId = NewAgentId]
    /\ UNCHANGED <<activeExecutors, timers, bots, now, req, ticks, api, skips, health, cleanup>>

\* createAgent after create: BehaviorExecutor.initialize(agent)
CreateInitialize ==
    /\ creation.pc = "created"
    /\ initialize([agentId |-> creation.agentId, profile |-> creation.profile,
                   minecraftBotId |-> creation.botId])
    /\ creation' = [creation EXCEPT !.pc = "initialized"]
    /\ UNCHANGED <<agentsStore, actionsStore, bots, usedIds, now, req, ticks, api, skips, order, health, cleanup>>

\* createAgent after initialize: agent.status = "active" and
\* AgentRepository.update(agentId, {status: "active"}), which throws on a missing record
CreateActivate ==
    /\ creation.pc = "initialized"
    /\ IF MapHas(agentsStore, creation.agentId)
       THEN agentsStore' = updateStatus(agentsStore, creation.agentId, "active")
       ELSE UNCHANGED agentsStore
    /\ creation' = IdleCreation
    /\ UNCHANGED <<actionsStore, activeExecutors, timers, bots, usedIds, now,
                   req, ticks, api, skips, order, health, cleanup>>

\* ------------------------------------------- BehaviorExecutor: one tick
IdleSlots == {k \in TickSlots : ticks[k].pc = "idle"}
NewSlot == CHOOSE k \in IdleSlots : \A j \in IdleSlots : k <= j
InFlight(agentId) == {k \in TickSlots : ticks[k].pc # "idle" /\ ticks[k].agentId = agentId}
RECURSIVE SumLen(_, _)
SumLen(store, ids) ==
    IF ids = {} THEN 0
    ELSE LET id == CHOOSE x \in ids : TRUE
         IN Len(store[id]) + SumLen(store, ids \ {id})
\* Ticks past the connection check: their log entries and those still in flight.
TicksCounted ==
    SumLen(actionsStore, DOMAIN actionsStore)
      + Cardinality({k \in TickSlots : ticks[k].pc # "idle"})

\* executeBehavior reads agentId, status and actionCount of `currentAgent`.
TickReads == {"agentId", "status", "actionCount"}

\* executeBehavior with the missing-connection return removed: the tick goes on to
\* findById whether or not getBot found the bot
TimerFireNoBotCheck(h) ==
    /\ h \in DOMAIN timers
    /\ IdleSlots # {}
    /\ TicksCounted + skips < MaxActions
    /\ ticks' = [ticks EXCEPT ![NewSlot] =
                   [pc |-> "found", agentId |-> timers[h].agentId,
                    profile |-> timers[h].profile,
                    botId |-> timers[h].minecraftBotId,
                    cur |-> Project(findById(timers[h].agentId), TickReads),
                    behavior |-> "", success |-> FALSE]]
    /\ skips' = IF timers[h].minecraftBotId \notin bots THEN skips + 1 ELSE skips
    /\ UNCHANGED <<agentsStore, actionsStore, activeExecutors, timers, bots, usedIds, now,
                   creation, req, api, order, health, cleanup>>

\* The interval fires: the callback calls executeBehavior(agent), which returns at once
\* when getBot finds nothing and otherwise calls AgentRepository.findById.  MaxActions
\* bounds the firings, those that returned at the connection check included.
\* setInterval does not look at the promise of an earlier callback.
TimerFire(h) ==
    /\ h \in DOMAIN timers
    /\ IdleSlots # {}
    /\ TicksCounted + skips < MaxActions
    /\ IF timers[h].minecraftBotId \notin bots
       THEN /\ skips' = skips + 1
            /\ UNCHANGED ticks
       ELSE /\ ticks' = [ticks EXCEPT ![NewSlot] =
                          [pc |-> "found", agentId |-> timers[h].agentId,
                           profile |-> timers[h].profile,
                           botId |-> timers[h].minecraftBotId,
                           cur |-> Project(findById(timers[h].agentId), TickReads),
                           behavior |-> "", success |-> FALSE]]
            /\ UNCHANGED skips
    /\ UNCHANGED <<agentsStore, actionsStore, activeExecutors, timers, bots, usedIds, now,
                   creation, req, api, order, health, cleanup>>

\* executeBehavior with `currentAgent.status !== "active"` missing from the check
TickSelectNoStatusCheck(k) ==
    /\ ticks[k].pc = "found"
    /\ IF ticks[k].cur = Null
       THEN ticks' = [ticks EXCEPT ![k] = IdleTick]
       ELSE \E behavior \in selectBehavior(getProfile(ticks[k].profile)) :
               ticks' = [ticks EXCEPT ![k].pc = "executed",
                                      ![k].behavior = behavior,
                                      ![k].success = executeMinecraftBehavior(behavior)]
    /\ UNCHANGED <<agentsStore, actionsStore, activeExecutors, timers, bots, usedIds, now,
                   creation, req, api, skips, order, health, cleanup>>

\* executeBehavior dispatching under a process-wide lock: a tick waits while the dispatch
\* of any other tick is pending
TickSelectSerial(k) ==
    /\ ticks[k].pc = "found"
    /\ \A j \in TickSlots \ {k} : ticks[j].pc # "executed"
    /\ IF ticks[k].cur = Null \/ ticks[k].cur[1].status # "active"
       THEN ticks' = [ticks EXCEPT ![k] = IdleTick]
       ELSE \E behavior \in selectBehavior(getProfile(ticks[k].profile)) :
               ticks' = [ticks EXCEPT ![k].pc = "executed",
                                      ![k].behavior = behavior,
                                      ![k].success = executeMinecraftBehavior(behavior)]
    /\ UNCHANGED <<agentsStore, actionsStore, activeExecutors, timers, bots, usedIds, now,
                   creation, req, api, skips, order, health, cleanup>>

\* executeBehavior with the status check inverted: the tick returns when the record it
\* read is active
TickSelectActiveReturns(k) ==
    /\ ticks[k].pc = "found"
    /\ IF ticks[k].cur = Null \/ ticks[k].cur[1].status = "active"
       THEN ticks' = [ticks EXCEPT ![k] = IdleTick]
       ELSE \E behavior \in selectBehavior(getProfile(ticks[k].profile)) :
               ticks' = [ticks EXCEPT ![k].pc = "executed",
                                      ![k].behavior = behavior,
                                      ![k].success = executeMinecraftBehavior(behavior)]
    /\ UNCHANGED <<agentsStore, actionsStore, activeExecutors, timers, bots, usedIds, now,
                   creation, req, api, skips, order, health, cleanup>>

\* executeBehavior after findById: the status check, selectBehavior and the call of
\* executeMinecraftBehavior
TickSelect(k) ==
    /\ ticks[k].pc = "found"
    /\ IF ticks[k].cur = Null \/ ticks[k].cur[1].status # "active"
       THEN ticks' = [ticks EXCEPT ![k] = IdleTick]
       ELSE \E behavior \in selectBehavior(getProfile(ticks[k].profile)) :
               ticks' = [ticks EXCEPT ![k].pc = "executed",
                                      ![k].behavior = behavior,
                                      ![k].success = executeMinecraftBehavior(behavior)]
    /\ UNCHANGED <<agentsStore, actionsStore, activeExecutors, timers, bots, usedIds, now,
                   creation, req, api, skips, order, health, cleanup>>

\* logAction: the BehavioralAction is built and AgentRepository.createAction stores it
TickLog(k) ==
    /\ ticks[k].pc = "executed"
    /\ actionsStore' = createAction(actionsStore,
                          [agentId |-> ticks[k].cur[1].agentId,
                           actionType |-> ticks[k].behavior,
                           timestamp |-> now,
                           success |-> ticks[k].success])
    /\ ticks' = [ticks EXCEPT ![k].pc = "logged", ![k].behavior = ""]
    /\ UNCHANGED <<agentsStore, activeExecutors, timers, bots, usedIds, now,
                   creation, req, api, skips, order, health, cleanup>>

\* The tick's update with the callback's try/catch missing: the rejection is unhandled
\* and the process exits, taking every interval with it
TickUpdateUncaught(k) ==
    /\ ticks[k].pc = "logged"
    /\ IF MapHas(agentsStore, ticks[k].agentId)
       THEN /\ agentsStore' = updateStats(agentsStore, ticks[k].agentId, now,
                                          ticks[k].cur[1].actionCount + 1)
            /\ ticks' = [ticks EXCEPT ![k] = IdleTick]
            /\ UNCHANGED <<timers, activeExecutors>>
       ELSE /\ ticks' = [j \in TickSlots |-> IdleTick]
            /\ timers' = <<>>
            /\ activeExecutors' = <<>>
            /\ UNCHANGED agentsStore
    /\ UNCHANGED <<actionsStore, bots, usedIds, now, creation, req, api, skips, order, health, cleanup>>

\* The tick's update merging one field per step, with a suspension between the two:
\* lastActionAt first (the slot is marked "half"), actionCount second
TickUpdateFieldwise(k) ==
    /\ ticks[k].pc = "logged"
    /\ IF ~MapHas(agentsStore, ticks[k].agentId)
       THEN /\ ticks' = [ticks EXCEPT ![k].pc = "caught"]
            /\ UNCHANGED agentsStore
       ELSE IF ticks[k].behavior # "half"
            THEN /\ agentsStore' = MapSet(agentsStore, ticks[k].agentId,
                                      [agentsStore[ticks[k].agentId]
                                          EXCEPT !.lastActionAt = Some(now)])
                 /\ ticks' = [ticks EXCEPT ![k].behavior = "half"]
            ELSE /\ agentsStore' = MapSet(agentsStore, ticks[k].agentId,
                                      [agentsStore[ticks[k].agentId]
                                          EXCEPT !.actionCount =
                                                    ticks[k].cur[1].actionCount + 1])
                 /\ ticks' = [ticks EXCEPT ![k] = IdleTick]
    /\ UNCHANGED <<actionsStore, activeExecutors, timers, bots, usedIds, now,
                   creation, req, api, skips, order, health, cleanup>>

\* The tick's update writing back the whole of currentAgent, the status it read included
TickUpdateWholeRecord(k) ==
    /\ ticks[k].pc = "logged"
    /\ IF MapHas(agentsStore, ticks[k].agentId)
       THEN /\ agentsStore' = MapSet(agentsStore, ticks[k].agentId,
                                  [agentsStore[ticks[k].agentId]
                                      EXCEPT !.status = ticks[k].cur[1].status,
                                             !.lastActionAt = Some(now),
                                             !.actionCount = ticks[k].cur[1].actionCount + 1])
            /\ ticks' = [ticks EXCEPT ![k] = IdleTick]
       ELSE /\ ticks' = [ticks EXCEPT ![k].pc = "caught"]
            /\ UNCHANGED agentsStore
    /\ UNCHANGED <<actionsStore, activeExecutors, timers, bots, usedIds, now,
                   creation, req, api, skips, order, health, cleanup>>

\* The tick's update passing actionCount alone
TickUpdateCountOnly(k) ==
    /\ ticks[k].pc = "logged"
    /\ IF MapHas(agentsStore, ticks[k].agentId)
       THEN /\ agentsStore' = MapSet(agentsStore, ticks[k].agentId,
                                  [agentsStore[ticks[k].agentId]
                                      EXCEPT !.actionCount = ticks[k].cur[1].actionCount + 1])
            /\ ticks' = [ticks EXCEPT ![k] = IdleTick]
       ELSE /\ ticks' = [ticks EXCEPT ![k].pc = "caught"]
            /\ UNCHANGED agentsStore
    /\ UNCHANGED <<actionsStore, activeExecutors, timers, bots, usedIds, now,
                   creation, req, api, skips, order, health, cleanup>>

\* executeBehavior after logAction: AgentRepository.update(agentId, {lastActionAt,
\* actionCount: currentAgent.actionCount + 1}); its exception reaches the callback's catch
TickUpdate(k) ==
    /\ ticks[k].pc = "logged"
    /\ IF MapHas(agentsStore, ticks[k].agentId)
       THEN /\ agentsStore' = updateStats(agentsStore, ticks[k].agentId, now,
                                          ticks[k].cur[1].actionCount + 1)
            /\ ticks' = [ticks EXCEPT ![k] = IdleTick]
       ELSE /\ ticks' = [ticks EXCEPT ![k].pc = "caught"]
            /\ UNCHANGED agentsStore
    /\ UNCHANGED <<actionsStore, activeExecutors, timers, bots, usedIds, now,
                   creation, req, api, skips, order, health, cleanup>>

\* The callback's catch block: console.error, and the callback returns
TickCaught(k) ==
    /\ ticks[k].pc = "caught"
    /\ ticks' = [ticks EXCEPT ![k] = IdleTick]
    /\ UNCHANGED <<agentsStore, actionsStore, activeExecutors, timers, bots, usedIds, now,
                   creation, req, api, skips, order, health, cleanup>>

\* ------------------------------------------------------------- environment
\* DELETE /api/minecraft/bots/:botId: a connection is removed outside the agent module
BotRemoved(botId) ==
    /\ botId \in bots
    /\ bots' = bots \ {botId}
    /\ UNCHANGED <<agentsStore, actionsStore, activeExecutors, timers, usedIds, now,
                   creation, req, ticks, api, skips, order, health, cleanup>>

\* new Date() moves on
ClockAdvance ==
    /\ now < MaxTime
    /\ now' = now + 1
    /\ UNCHANGED <<agentsStore, actionsStore, activeExecutors, timers, bots, usedIds,
                   creation, req, ticks, api, skips, order, health, cleanup>>

\* ----------------------------------- direct calls of the public static API
\* BehaviorExecutor.initialize(agent) with a stored AgentInstance
ApiInitialize(agentId) ==
    /\ MapHas(agentsStore, agentId)
    /\ initialize(agentsStore[agentId])
    /\ api' = [op |-> "initialize", agentId |-> agentId, had |-> isRunning(agentId),
               result |-> "ok", value |-> <<>>, arg |-> Null]
    /\ UNCHANGED <<agentsStore, actionsStore, bots, usedIds, now,
                   creation, req, ticks, skips, order, health, cleanup>>

\* BehaviorExecutor.stop(agentId)
ApiStop(agentId) ==
    /\ stop(agentId)
    /\ api' = [op |-> "stop", agentId |-> agentId, had |-> isRunning(agentId),
               result |-> "ok", value |-> <<>>, arg |-> Null]
    /\ UNCHANGED <<agentsStore, actionsStore, bots, usedIds, now,
                   creation, req, ticks, skips, order, health, cleanup>>

\* Partial records passed to AgentRepository.update by a direct caller.
UpdateData ==
    {[status |-> "paused"], [actionCount |-> 1], [status |-> "error", actionCount |-> 1]}

\* AgentRepository.update(agentId, data)
ApiUpdate(agentId, data) ==
    /\ LET res == update(agentsStore, agentId, data) IN
          /\ agentsStore' = res.store
          /\ api' = [op |-> "update", agentId |-> agentId,
                     had |-> MapHas(agentsStore, agentId), result |-> res.result,
                     value |-> <<>>, arg |-> Null]
    /\ UNCHANGED <<actionsStore, activeExecutors, timers, bots, usedIds, now,
                   creation, req, ticks, skips, order, health, cleanup>>

\* AgentRepository.create(agent) with an AgentInstance whose id has been generated
\* before (its record may be stored still, or deleted)
ApiCreate(agentId, botId) ==
    /\ agentId \in usedIds
    /\ LET res == create(agentsStore, actionsStore,
                         NewAgent(agentId, "confuser", botId, now)) IN
          /\ agentsStore' = res.agents
          /\ actionsStore' = res.actions
          /\ api' = [op |-> "create", agentId |-> agentId,
                     had |-> MapHas(agentsStore, agentId), result |-> res.result,
                     value |-> <<>>, arg |-> Null]
    /\ order' = KeySet(order, DOMAIN agentsStore, agentId)
    /\ UNCHANGED <<activeExecutors, timers, bots, usedIds, now,
                   creation, req, ticks, skips, health, cleanup>>

\* AgentRepository.createAction(action), at most MaxActions entries in all
ApiCreateAction(agentId) ==
    /\ SumLen(actionsStore, DOMAIN actionsStore) < MaxActions
    /\ actionsStore' = createAction(actionsStore,
                          [agentId |-> agentId, actionType |-> "wander-off-mid-task",
                           timestamp |-> now, success |-> TRUE])
    /\ api' = [op |-> "createAction", agentId |-> agentId,
               had |-> MapHas(agentsStore, agentId), result |-> "ok", value |-> <<>>, arg |-> Null]
    /\ UNCHANGED <<agentsStore, activeExecutors, timers, bots, usedIds, now,
                   creation, req, ticks, skips, order, health, cleanup>>

\* AgentRepository.delete(agentId)
ApiDelete(agentId) ==
    /\ agentsStore' = MapDelete(agentsStore, agentId)
    /\ actionsStore' = MapDelete(actionsStore, agentId)
    /\ order' = KeyDelete(order, agentId)
    /\ UNCHANGED <<activeExecutors, timers, bots, usedIds, now,
                   creation, req, ticks, api, skips, health, cleanup>>

\* ------------------------------------------------- repository queries
\* A filter member that is undefined is Null; `if (filters?.status)` is a truthiness
\* test, so the empty string does not select either.
Truthy(opt) == opt # Null /\ opt[1] # ""

StatusFilters == {Null, Some(""), Some("active"), Some("paused")}
ProfileFilters == {Null, Some("confuser"), Some("cooperative")}
Filters == [status : StatusFilters, profile : ProfileFilters]

\* Array.from(agentsStore.values()): the stored records in insertion order
Values == [i \in 1..Len(order) |-> agentsStore[order[i]]]

\* Array.prototype.sort with the comparator b[key] - a[key] (as times): descending by
\* key, and stable, so elements with equal keys keep their relative order.
Rank(s, key, i) ==
    Cardinality({j \in 1..Len(s) : \/ s[j][key] > s[i][key]
                                    \/ (s[j][key] = s[i][key] /\ j < i)}) + 1
SortDescending(s, key) ==
    [r \in 1..Len(s) |-> s[CHOOSE i \in 1..Len(s) : Rank(s, key, i) = r]]

\* AgentRepository.findAll(filters)
findAll(filters) ==
    LET all == Values
        byStatus == IF Truthy(filters.status)
                    THEN SelectSeq(all, LAMBDA a : a.status = filters.status[1])
                    ELSE all
        byProfile == IF Truthy(filters.profile)
                     THEN SelectSeq(byStatus, LAMBDA a : a.profile = filters.profile[1])
                     ELSE byStatus
    IN SortDescending(byProfile, "spawnedAt")

ApiFindAll(filters) ==
    /\ api' = [op |-> "findAll", agentId |-> "", had |-> FALSE, result |-> "ok",
               value |-> findAll(filters), arg |-> filters]
    /\ UNCHANGED <<agentsStore, actionsStore, activeExecutors, timers, bots, usedIds, now,
                   creation, req, ticks, skips, order, health, cleanup>>

\* Array.prototype.slice(0, end): a negative end counts from the end of the array
Slice0(s, end) ==
    LET last == IF end < 0 THEN (IF Len(s) + end < 0 THEN 0 ELSE Len(s) + end)
                ELSE (IF end > Len(s) THEN Len(s) ELSE end)
    IN SubSeq(s, 1, last)

DefaultLimit == 100
Limits == {-1, 0, 1, 2, DefaultLimit}

\* findActions without the sort: the first `limit` entries in stored order
findActionsNoSort(store, agentId, limit) ==
    LET actions == IF MapHas(store, agentId) THEN store[agentId] ELSE <<>>
    IN [value |-> Slice0(actions, limit), store |-> store]

\* AgentRepository.findActions(agentId, limit): sort() orders the stored array itself,
\* slice() copies the first `limit` elements of it.
findActions(store, agentId, limit) ==
    LET actions == IF MapHas(store, agentId) THEN store[agentId] ELSE <<>>
        sorted == SortDescending(actions, "timestamp")
    IN [value |-> Slice0(sorted, limit),
        store |-> IF MapHas(store, agentId) THEN MapSet(store, agentId, sorted) ELSE store]

ApiFindActions(agentId, limit) ==
    /\ LET res == findActions(actionsStore, agentId, limit) IN
          /\ actionsStore' = res.store
          /\ api' = [op |-> "findActions", agentId |-> agentId,
                     had |-> MapHas(actionsStore, agentId), result |-> "ok",
                     value |-> res.value, arg |-> limit]
    /\ UNCHANGED <<agentsStore, activeExecutors, timers, bots, usedIds, now,
                   creation, req, ticks, skips, order, health, cleanup>>

\* ------------------------------------------ LifecycleManager.getHealthStatus
\* One step of the clock stands for MinutesPerStep minutes; the staleness test is
\* minutesSinceLastAction > 5.
MinutesPerStep == 6
StaleMinutes == 5
minutesSinceLastAction(agent) == (now - agent.lastActionAt[1]) * MinutesPerStep

NotFound == <<"Agent not found">>
NoBot == <<"Minecraft bot not found">>
NotRunning == <<"Behavior executor not running">>
NoActions == <<"No actions in the last 5 minutes">>

\* getHealthStatus with the staleness test applied whatever the status
HealthIssuesAnyStatus(found) ==
    IF found = Null THEN NotFound
    ELSE LET agent == found[1] IN
         (IF agent.minecraftBotId \notin bots THEN NoBot ELSE <<>>)
         \o (IF agent.status = "active" /\ ~isRunning(agent.agentId)
             THEN NotRunning ELSE <<>>)
         \o (IF agent.lastActionAt # Null /\ minutesSinceLastAction(agent) > StaleMinutes
             THEN NoActions ELSE <<>>)

\* getHealthStatus after findById: the issues it collects, in the order it pushes them
HealthIssues(found) ==
    IF found = Null THEN NotFound
    ELSE LET agent == found[1] IN
         (IF agent.minecraftBotId \notin bots THEN NoBot ELSE <<>>)
         \o (IF agent.status = "active" /\ ~isRunning(agent.agentId)
             THEN NotRunning ELSE <<>>)
         \o (IF /\ agent.lastActionAt # Null
                /\ minutesSinceLastAction(agent) > StaleMinutes
                /\ agent.status = "active"
             THEN NoActions ELSE <<>>)

\* getHealthStatus, entry: AgentRepository.findById(agentId) is called
HealthFind(agentId) ==
    /\ health.pc \in {"idle", "done"}
    /\ health' = [IdleHealth EXCEPT !.pc = "found", !.agentId = agentId,
                                    !.agent = findById(agentId)]
    /\ UNCHANGED <<agentsStore, actionsStore, activeExecutors, timers, bots, usedIds, now,
                   creation, req, ticks, api, skips, order, cleanup>>

\* getHealthStatus with a repair: a missing loop of an active agent is started again
HealthReportRepair ==
    /\ health.pc = "found"
    /\ LET issues == HealthIssues(health.agent) IN
          /\ health' = [health EXCEPT !.pc = "done", !.healthy = (issues = <<>>),
                                      !.issues = issues]
          /\ IF health.agent # Null /\ health.agent[1].status = "active"
                                    /\ ~isRunning(health.agentId)
             THEN initialize(health.agent[1])
             ELSE UNCHANGED <<activeExecutors, timers>>
    /\ UNCHANGED <<agentsStore, actionsStore, bots, usedIds, now,
                   creation, req, ticks, api, skips, order, cleanup>>

\* getHealthStatus after findById: getBot, isRunning and new Date() are read and the
\* result { healthy: issues.length === 0, issues } is returned
HealthReport ==
    /\ health.pc = "found"
    /\ LET issues == HealthIssues(health.agent) IN
          health' = [health EXCEPT !.pc = "done", !.healthy = (issues = <<>>),
                                   !.issues = issues]
    /\ UNCHANGED <<agentsStore, actionsStore, activeExecutors, timers, bots, usedIds, now,
                   creation, req, ticks, api, skips, order, cleanup>>

\* ----------------------------------------------- LifecycleManager.cleanupAll
\* cleanupAll awaits its transitionStatus calls one after the other; the call in
\* progress is the one of CleanupRequester.
CleanupRequester == "r1"

ActiveOnly == [status |-> Some("active"), profile |-> Null]
CleanupCurrent == cleanup.agents[cleanup.i]

\* cleanupAll, entry: AgentRepository.findAll({ status: "active" })
CleanupRead ==
    /\ cleanup.pc \in {"idle", "done", "thrown"}
    /\ req[CleanupRequester].pc = "idle"
    /\ LET agents == findAll(ActiveOnly) IN
          cleanup' = [IdleCleanup EXCEPT
                         !.pc = "loop",
                         !.agents = [i \in 1..Len(agents) |-> agents[i].agentId],
                         !.i = 1]
    /\ UNCHANGED <<agentsStore, actionsStore, activeExecutors, timers, bots, usedIds, now,
                   creation, req, ticks, api, skips, order, health>>

\* for (const agent of agents): this.transitionStatus(agent.agentId, "terminated") is
\* called, up to its findById
CleanupCall ==
    /\ cleanup.pc = "loop"
    /\ cleanup.i <= Len(cleanup.agents)
    /\ req' = [req EXCEPT ![CleanupRequester] =
                 [pc |-> "found", agentId |-> CleanupCurrent, newStatus |-> "terminated",
                  agent |-> Project(findById(CleanupCurrent), TransitionReads),
                  disc |-> "none", prev |-> Null]]
    /\ cleanup' = [cleanup EXCEPT !.pc = "waiting"]
    /\ UNCHANGED <<agentsStore, actionsStore, activeExecutors, timers, bots, usedIds, now,
                   creation, ticks, api, skips, order, health>>

\* cleanupAll leaving its loop after the first agent
CleanupResumeBreak ==
    /\ cleanup.pc = "waiting"
    /\ req[CleanupRequester].pc \in {"done", "thrown"}
    /\ cleanup' = IF req[CleanupRequester].pc = "thrown"
                  THEN [cleanup EXCEPT !.pc = "thrown"]
                  ELSE [cleanup EXCEPT
                           !.pc = "loop",
                           !.i = Len(cleanup.agents) + 1,
                           !.failed = IF req[CleanupRequester].disc = "failed"
                                      THEN @ \cup {CleanupCurrent} ELSE @]
    /\ req' = [req EXCEPT ![CleanupRequester] = IdleReq]
    /\ UNCHANGED <<agentsStore, actionsStore, activeExecutors, timers, bots, usedIds, now,
                   creation, ticks, api, skips, order, health>>

\* The awaited transitionStatus call has returned (the loop goes on to the next agent)
\* or thrown (cleanupAll rejects with that error).
CleanupResume ==
    /\ cleanup.pc = "waiting"
    /\ req[CleanupRequester].pc \in {"done", "thrown"}
    /\ cleanup' = IF req[CleanupRequester].pc = "thrown"
                  THEN [cleanup EXCEPT !.pc = "thrown"]
                  ELSE [cleanup EXCEPT
                           !.pc = "loop",
                           !.i = @ + 1,
                           !.failed = IF req[CleanupRequester].disc = "failed"
                                      THEN @ \cup {CleanupCurrent} ELSE @]
    /\ req' = [req EXCEPT ![CleanupRequester] = IdleReq]
    /\ UNCHANGED <<agentsStore, actionsStore, activeExecutors, timers, bots, usedIds, now,
                   creation, ticks, api, skips, order, health>>

\* After the loop: console.log(`Cleaned up ${agents.length} agents`)
CleanupLog ==
    /\ cleanup.pc = "loop"
    /\ cleanup.i > Len(cleanup.agents)
    /\ cleanup' = [cleanup EXCEPT !.pc = "done", !.count = Some(Len(cleanup.agents))]
    /\ UNCHANGED <<agentsStore, actionsStore, activeExecutors, timers, bots, usedIds, now,
                   creation, req, ticks, api, skips, order, health>>

\* ------------------------------------------------ calls of the registry
\* Strings a caller asks profileExists about.
Candidates ==
    RegistryKeys \cup {"invalid-profile", "", "Cooperative", "nonCooperator", "toString",
                       "constructor"}

ApiGetProfile(profile) ==
    /\ api' = [op |-> "getProfile", agentId |-> "", had |-> FALSE, result |-> "ok",
               value |-> Some(getProfile(profile)), arg |-> profile]
    /\ UNCHANGED <<agentsStore, actionsStore, activeExecutors, timers, bots, usedIds, now,
                   creation, req, ticks, skips, order, health, cleanup>>

ApiGetAllProfiles ==
    /\ api' = [op |-> "getAllProfiles", agentId |-> "", had |-> FALSE, result |-> "ok",
               value |-> getAllProfiles, arg |-> Null]
    /\ UNCHANGED <<agentsStore, actionsStore, activeExecutors, timers, bots, usedIds, now,
                   creation, req, ticks, skips, order, health, cleanup>>

ApiProfileExists(candidate) ==
    /\ api' = [op |-> "profileExists", agentId |-> "", had |-> FALSE, result |-> "ok",
               value |-> Some(profileExists(candidate)), arg |-> candidate]
    /\ UNCHANGED <<agentsStore, actionsStore, activeExecutors, timers, bots, usedIds, now,
                   creation, req, ticks, skips, order, health, cleanup>>

\* --------------------------------------------------------- specifications
Lifecycle ==
    \/ \E r \in Requesters : TransitionUpdate(r)
    \/ \E r \in Requesters : TransitionSideEffect(r)
    \/ \E r \in Requesters : TransitionDisconnect(r)
    \/ \E r \in Requesters : TransitionReturn(r)
    \/ \E r \in Requesters : TransitionAgain(r)

Creation ==
    \/ CreateBotFailed
    \/ CreateBotConnected
    \/ CreateRecord
    \/ CreateInitialize
    \/ CreateActivate

Scheduler ==
    \/ \E h \in Handles : TimerFire(h)
    \/ \E k \in TickSlots : TickSelect(k)
    \/ \E k \in TickSlots : TickLog(k)
    \/ \E k \in TickSlots : TickUpdate(k)
    \/ \E k \in TickSlots : TickCaught(k)

Environment ==
    \E b \in BotIds : BotRemoved(b)

\* The whole program: calls arrive at any time and overlap.
Next ==
    \/ \E r \in Requesters, a \in AgentIds, s \in RequestStatuses : TransitionFind(r, a, s)
    \/ \E p \in CreateProfiles : CreateBegin(p)
    \/ Lifecycle
    \/ Creation
    \/ Scheduler
    \/ Environment
    \/ ClockAdvance

Spec == Init /\ [][Next]_vars

\* The lifecycle side: createAgent and transitionStatus calls issued one at a time (each
\* completes before the next begins), with connections dropping at any time.  Ticks are
\* left out: they write only actionsStore, lastActionAt and actionCount, which no
\* lifecycle handler reads.
NextLifecycle ==
    \/ \E r \in Requesters, a \in AgentIds, s \in RequestStatuses :
          Quiescent /\ TransitionFind(r, a, s)
    \/ \E p \in CreateProfiles : Quiescent /\ CreateBegin(p)
    \/ Lifecycle
    \/ Creation
    \/ Environment
    \/ ClockAdvance

SpecLifecycle == Init /\ [][NextLifecycle]_vars

\* The scheduler side: created agents tick; a record may be deleted under a tick.  The
\* clock stands still here: no branch of a tick reads it.
NextScheduler ==
    \/ \E p \in CreateProfiles : CreateBegin(p)
    \/ Creation
    \/ Scheduler
    \/ Environment
    \/ \E a \in AgentIds : ApiDelete(a)

SpecScheduler == Init /\ [][NextScheduler]_vars

\* Direct calls of the scheduler's and the repository's public methods on created agents.
NextApi ==
    \/ \E p \in CreateProfiles : CreateBegin(p)
    \/ Creation
    \/ Environment
    \/ ClockAdvance
    \/ \E a \in AgentIds : ApiInitialize(a)
    \/ \E a \in AgentIds : ApiStop(a)
    \/ \E a \in AgentIds : ApiDelete(a)

SpecApi == Init /\ [][NextApi]_vars

\* Loops started and stopped under running ticks: createAgent, direct calls of
\* BehaviorExecutor.initialize and stop, and the ticks of the intervals they leave.  No
\* record is deleted here, so no tick's update throws.
NextLoop ==
    \/ \E p \in CreateProfiles : CreateBegin(p)
    \/ Creation
    \/ \E h \in Handles : TimerFire(h)
    \/ \E k \in TickSlots : TickSelect(k)
    \/ \E k \in TickSlots : TickLog(k)
    \/ \E k \in TickSlots : TickUpdate(k)
    \/ \E a \in AgentIds : ApiInitialize(a)
    \/ \E a \in AgentIds : ApiStop(a)

SpecLoop == Init /\ [][NextLoop]_vars

\* Direct calls of the repository's public methods, on stored and on unknown ids.
NextStore ==
    \/ \E p \in CreateProfiles : CreateBegin(p)
    \/ Creation
    \/ \E a \in AgentIds, b \in BotIds : ApiCreate(a, b)
    \/ \E a \in AgentIds, d \in UpdateData : ApiUpdate(a, d)
    \/ \E a \in AgentIds : ApiCreateAction(a)
    \/ \E a \in AgentIds : ApiDelete(a)

SpecStore == Init /\ [][NextStore]_vars

\* findAll over a store filled by createAgent, with the clock moving between the calls.
QueryProfiles == {"confuser", "cooperative"}

NextQuery ==
    \/ \E p \in QueryProfiles : CreateBegin(p)
    \/ Creation
    \/ ClockAdvance
    \/ \E a \in AgentIds, b \in BotIds : ApiCreate(a, b)
    \/ \E a \in AgentIds : ApiUpdate(a, [status |-> "paused"])
    \/ \E a \in AgentIds : ApiDelete(a)
    \/ \E f \in Filters : ApiFindAll(f)

SpecQuery == Init /\ [][NextQuery]_vars

\* The action logs: entries appended and listed while the clock moves.
NextLog ==
    \/ \E p \in CreateProfiles : CreateBegin(p)
    \/ Creation
    \/ ClockAdvance
    \/ \E a \in AgentIds : ApiCreateAction(a)
    \/ \E a \in AgentIds, n \in Limits : ApiFindActions(a, n)

SpecLog == Init /\ [][NextLog]_vars

\* Health checks of agents that are being created, act, lose their loop or their
\* connection while the clock moves, and of identifiers that have no record.
NextHealth ==
    \/ \E p \in CreateProfiles : CreateBegin(p)
    \/ Creation
    \/ ClockAdvance
    \/ \E a \in AgentIds : ApiUpdate(a, [lastActionAt |-> Some(now), actionCount |-> 1])
    \/ \E a \in AgentIds : ApiStop(a)
    \/ \E b \in BotIds : BotRemoved(b)
    \/ \E a \in AgentIds : HealthFind(a)
    \/ HealthReport

SpecHealth == Init /\ [][NextHealth]_vars

\* cleanupAll while agents are created, connections go away and records are deleted;
\* no other caller of transitionStatus is at work.
NextCleanup ==
    \/ \E p \in CreateProfiles : CreateBegin(p)
    \/ Creation
    \/ \E b \in BotIds : BotRemoved(b)
    \/ \E a \in AgentIds : ApiDelete(a)
    \/ CleanupRead
    \/ CleanupCall
    \/ TransitionUpdate(CleanupRequester)
    \/ TransitionSideEffect(CleanupRequester)
    \/ TransitionDisconnect(CleanupRequester)
    \/ CleanupResume
    \/ CleanupLog

SpecCleanup == Init /\ [][NextCleanup]_vars

\* createAgent called with registered and with unregistered profile identifiers.
RequestProfiles == {"confuser", "cooperative", "task-abandoner", "saboteur", "nonCooperator"}

NextCreate ==
    \/ \E p \in RequestProfiles : CreateBegin(p)
    \/ Creation
    \/ ClockAdvance
    \/ \E b \in BotIds : BotRemoved(b)
    \/ \E a \in AgentIds : ApiDelete(a)

SpecCreate == Init /\ [][NextCreate]_vars

\* Loops of agents of two profiles, started by createAgent, with their ticks.
NextPeriod ==
    \/ \E p \in QueryProfiles : CreateBegin(p)
    \/ Creation
    \/ \E h \in Handles : TimerFire(h)
    \/ \E k \in TickSlots : TickSelect(k)
    \/ \E k \in TickSlots : TickLog(k)
    \/ \E k \in TickSlots : TickUpdate(k)

SpecPeriod == Init /\ [][NextPeriod]_vars

\* The registry's functions called while agents are created.
NextRegistry ==
    \/ \E p \in RequestProfiles : CreateBegin(p)
    \/ Creation
    \/ \E p \in RegistryKeys : ApiGetProfile(p)
    \/ ApiGetAllProfiles
    \/ \E c \in Candidates : ApiProfileExists(c)

SpecRegistry == Init /\ [][NextRegistry]_vars

\* Status changes made one at a time, through LifecycleManager.transitionStatus and
\* through AgentService.terminateAgent: each call completes before the next begins.
NextOrder ==
    \/ \E p \in CreateProfiles : Quiescent /\ CreateBegin(p)
    \/ Creation
    \/ \E r \in Requesters, a \in AgentIds, s \in RequestStatuses :
          Quiescent /\ TransitionFind(r, a, s)
    \/ \E r \in Requesters : TransitionUpdate(r)
    \/ \E r \in Requesters : TransitionSideEffect(r)
    \/ \E r \in Requesters : TransitionDisconnect(r)
    \/ \E r \in Requesters, a \in AgentIds : Quiescent /\ TerminateFind(r, a)
    \/ \E r \in Requesters : TerminateStop(r)
    \/ \E r \in Requesters : TerminateDisconnect(r)
    \/ \E r \in Requesters : TerminateUpdate(r)
    \/ \E r \in Requesters : TransitionReturn(r)

SpecOrder == Init /\ [][NextOrder]_vars

\* Status changes under running ticks: one agent is created and, once its creation has
\* completed, one transitionStatus call is made for it, while the agent's interval
\* fires and its ticks are in flight.
StatusCaller == "r1"

NextWrites ==
    \/ \E p \in CreateProfiles : usedIds = {} /\ CreateBegin(p)
    \/ Creation
    \/ \E a \in AgentIds, s \in RequestStatuses :
          /\ creation.pc = "idle"
          /\ MapHas(agentsStore, a)
          /\ TransitionFind(StatusCaller, a, s)
    \/ TransitionUpdate(StatusCaller)
    \/ TransitionSideEffect(StatusCaller)
    \/ TransitionDisconnect(StatusCaller)
    \/ \E h \in Handles : TimerFire(h)
    \/ \E k \in TickSlots : TickSelect(k)
    \/ \E k \in TickSlots : TickLog(k)
    \/ \E k \in TickSlots : TickUpdate(k)

SpecWrites == Init /\ [][NextWrites]_vars

\* Overlapping transitionStatus calls on one agent: once the agent's creation has
\* completed, two callers call transitionStatus for it, each at any moment at which the
\* other has no result left to collect; the awaited store calls of the two calls
\* complete in any order.
NextRace ==
    \/ \E p \in CreateProfiles : usedIds = {} /\ CreateBegin(p)
    \/ Creation
    \/ \E r \in Requesters, a \in AgentIds, s \in RequestStatuses :
          /\ creation.pc = "idle"
          /\ MapHas(agentsStore, a)
          /\ \A q \in Requesters : req[q].pc \notin {"done", "thrown"}
          /\ TransitionFind(r, a, s)
    \/ \E r \in Requesters : TransitionUpdate(r)
    \/ \E r \in Requesters : TransitionSideEffect(r)
    \/ \E r \in Requesters : TransitionDisconnect(r)
    \/ \E r \in Requesters : TransitionReturn(r)

SpecRace == Init /\ [][NextRace]_vars

\* One agent's dispatch never returns: the ticks of StuckAgent get as far as the call of
\* executeMinecraftBehavior and stay there, at most MaxStuck of them.  Every other
\* callback is run by the event loop once its timer has expired or its promise has
\* resolved, which is the weak fairness stated on the scheduler steps.
StuckAgent == "agent-1"

StuckScheduler ==
    \/ \E h \in Handles :
          /\ h \in DOMAIN timers
          /\ timers[h].agentId = StuckAgent => Cardinality(InFlight(StuckAgent)) < MaxStuck
          /\ TimerFire(h)
    \/ \E k \in TickSlots : TickSelect(k)
    \/ \E k \in TickSlots : ticks[k].agentId # StuckAgent /\ TickLog(k)
    \/ \E k \in TickSlots : ticks[k].agentId # StuckAgent /\ TickUpdate(k)

NextStuck ==
    \/ \E p \in CreateProfiles : CreateBegin(p)
    \/ Creation
    \/ StuckScheduler

SpecStuck == Init /\ [][NextStuck]_vars /\ WF_vars(StuckScheduler)

\* Agents that stay active: created by createAgent and then left alone, with their
\* connections in place.  The event loop runs the callback of every interval that keeps
\* expiring and every continuation whose store or dispatch promise has resolved, which
\* is the weak fairness stated on each of these steps.  LiveAgent is the agent watched;
\* the firings of the other agent leave one of the MaxActions firings to it.
LiveAgent == "agent-1"

FiringsOf(agentId) ==
    (IF MapHas(actionsStore, agentId) THEN Len(actionsStore[agentId]) ELSE 0)
      + Cardinality(InFlight(agentId))

LiveFire(agentId) ==
    \E h \in Handles :
        /\ h \in DOMAIN timers
        /\ timers[h].agentId = agentId
        /\ agentId # LiveAgent => FiringsOf(agentId) < MaxActions - 1
        /\ TimerFire(h)

NextLive ==
    \/ \E p \in CreateProfiles : CreateBegin(p)
    \/ Creation
    \/ \E a \in AgentIds : LiveFire(a)
    \/ \E k \in TickSlots : TickSelect(k)
    \/ \E k \in TickSlots : TickLog(k)
    \/ \E k \in TickSlots : TickUpdate(k)

SpecLive ==
    /\ Init
    /\ [][NextLive]_vars
    /\ \A a \in AgentIds : WF_vars(LiveFire(a))
    /\ \A k \in TickSlots :
          WF_vars(TickSelect(k)) /\ WF_vars(TickLog(k)) /\ WF_vars(TickUpdate(k))

\* ------------------------------------------------------------------ claims
LoopCount(agentId) == Cardinality(TimersOf(agentId))
StoredStatus(agentId) ==
    IF MapHas(agentsStore, agentId) THEN agentsStore[agentId].status ELSE "absent"
HasOneLoop(agentId) == LoopCount(agentId) = 1 /\ isRunning(agentId)
HasNoLoop(agentId) == LoopCount(agentId) = 0 /\ ~isRunning(agentId)

\* C1: at every instant an agent has exactly one running loop if its stored status is
\* active and no loop otherwise.
C1_LoopIffActive ==
    \A a \in AgentIds :
        IF StoredStatus(a) = "active" THEN HasOneLoop(a) ELSE HasNoLoop(a)

\* The second call of a pause-then-resume pair has completed for requester r.
ResumedAfterPause(r) ==
    /\ req[r].pc = "done"
    /\ req[r].newStatus = "active"
    /\ req[r].prev # Null
    /\ req[r].prev[1].newStatus = "paused"
    /\ req[r].prev[1].outcome = "done"

\* C2: when transitionStatus(id, paused) followed by transitionStatus(id, active) has
\* completed, the agent has exactly one running loop.
C2_PauseResumeOneLoop ==
    \A r \in Requesters : ResumedAfterPause(r) => HasOneLoop(req[r].agentId)

C2_Witness ==
    \E r \in Requesters : ResumedAfterPause(r) /\ HasOneLoop(req[r].agentId)

\* C3: once the stored status is terminated or error, no step changes the status or
\* starts a loop for the agent.
C3_TerminalIsFinal ==
    [][\A a \in DOMAIN agentsStore :
          agentsStore[a].status \in {"terminated", "error"} =>
             /\ a \in DOMAIN agentsStore'
             /\ agentsStore'[a].status = agentsStore[a].status
             /\ {h \in DOMAIN timers' : timers'[h].agentId = a} \subseteq TimersOf(a)]_vars

\* The second call of a terminate-twice pair has returned or thrown for requester r.
TerminatedTwice(r) ==
    /\ req[r].pc \in {"done", "thrown"}
    /\ req[r].newStatus = "terminated"
    /\ req[r].prev # Null
    /\ req[r].prev[1].newStatus = "terminated"
    /\ req[r].prev[1].outcome = "done"

C5_DisconnectFailureSwallowed ==
    \A r \in Requesters :
        req[r].disc = "failed" =>
            /\ req[r].pc = "done"
            /\ StoredStatus(req[r].agentId) = "terminated"
            /\ HasNoLoop(req[r].agentId)

C5_Witness ==
    \E r \in Requesters :
        /\ req[r].disc = "failed"
        /\ req[r].pc = "done"
        /\ req[r].prev = Null
        /\ StoredStatus(req[r].agentId) = "terminated"

\* C6: a transitionStatus call that found no record throws, and neither its lookup nor
\* its failure changes the store, the scheduler or the connections.
C6_UnknownAgentRejected ==
    [][\A r \in Requesters :
          /\ (req[r].pc = "found" /\ req[r].agent = Null /\ req'[r] # req[r]) =>
                /\ req'[r].pc = "thrown"
                /\ UNCHANGED <<agentsStore, actionsStore, activeExecutors, timers, bots>>
          /\ (req[r].pc # "found" /\ req'[r].pc = "found" /\ req'[r].agent = Null) =>
                UNCHANGED <<agentsStore, actionsStore, activeExecutors, timers, bots>>]_vars

C6_Witness ==
    \E r \in Requesters :
        /\ req[r].pc = "thrown"
        /\ req[r].agent = Null
        /\ ~MapHas(agentsStore, req[r].agentId)

\* C7: initialize on an agent with a running loop creates no second timer, so every live
\* timer is the one registered for its agent in activeExecutors.
C7_InitializeIdempotent ==
    \A h \in DOMAIN timers :
        /\ isRunning(timers[h].agentId)
        /\ activeExecutors[timers[h].agentId] = h

\* C8: stop(id) clears the registered timer and removes the handle when the agent has a
\* running loop, and changes nothing when it has none.
C8_StopEffect ==
    [][\A a \in AgentIds :
          ApiStop(a) =>
             IF isRunning(a)
             THEN /\ timers' = MapDelete(timers, activeExecutors[a])
                  /\ activeExecutors' = MapDelete(activeExecutors, a)
             ELSE UNCHANGED <<timers, activeExecutors>>]_vars

C8_Witness ==
    /\ api.op = "stop"
    /\ api.had
    /\ ~isRunning(api.agentId)
    /\ LoopCount(api.agentId) = 0

UpdateWillThrow(k) ==
    ticks[k].pc = "logged" /\ ~MapHas(agentsStore, ticks[k].agentId)

\* C10: a tick whose update throws ends in the callback's catch; neither the throw nor
\* the catch touches a timer, the handle map, the store or another tick.
C10_TickFailureConfined ==
    [][\A k \in TickSlots :
          /\ (UpdateWillThrow(k) /\ ticks'[k] # ticks[k]) =>
                /\ ticks'[k].pc = "caught"
                /\ UNCHANGED <<timers, activeExecutors, agentsStore, actionsStore>>
                /\ \A j \in TickSlots \ {k} : ticks'[j] = ticks[j]
          /\ (ticks[k].pc = "caught" /\ ticks'[k] # ticks[k]) =>
                /\ ticks'[k] = IdleTick
                /\ UNCHANGED <<timers, activeExecutors, agentsStore, actionsStore>>
                /\ \A j \in TickSlots \ {k} : ticks'[j] = ticks[j]]_vars

C10_Witness ==
    \E k \in TickSlots :
        /\ ticks[k].pc = "caught"
        /\ HasOneLoop(ticks[k].agentId)
        /\ \E b \in AgentIds \ {ticks[k].agentId} : HasOneLoop(b)

\* The tick in slot k has re-read the store and found no record or a status other than
\* active.
TickMustSkip(k) ==
    /\ ticks[k].pc = "found"
    /\ (ticks[k].cur = Null \/ ticks[k].cur[1].status # "active")

\* C11: a tick that finds the record absent or not active ends there: no dispatch, no log
\* entry, no counter or timestamp update, no error.
C11_InactiveTickSkips ==
    [][\A k \in TickSlots :
          (TickMustSkip(k) /\ ticks'[k] # ticks[k]) =>
             /\ ticks'[k] = IdleTick
             /\ UNCHANGED <<agentsStore, actionsStore, activeExecutors, timers, bots>>]_vars

\* Both cases pending at once: one tick found no record, another a record not active.
C11_Witness ==
    \E k, j \in TickSlots :
        /\ ticks[k].pc = "found" /\ ticks[k].cur = Null
        /\ ticks[j].pc = "found" /\ ticks[j].cur # Null
        /\ ticks[j].cur[1].status # "active"

\* C12: an interval firing that finds no connection appends nothing, updates nothing,
\* starts no tick, and leaves every timer, handle and status as it was, however many
\* firings have been skipped before.
C12_MissingBotSkips ==
    [][skips' # skips =>
          /\ skips' = skips + 1
          /\ UNCHANGED <<agentsStore, actionsStore, activeExecutors, timers, ticks>>]_vars

\* Two firings in a row were skipped for an active agent whose loop is still registered.
C12_Witness ==
    /\ skips >= 2
    /\ \E a \in DOMAIN agentsStore :
          /\ agentsStore[a].status = "active"
          /\ agentsStore[a].minecraftBotId \notin bots
          /\ agentsStore[a].actionCount = 0
          /\ actionsStore[a] = <<>>
          /\ HasOneLoop(a)

\* C13: a tick starts only for an agent whose loop is registered, so between a stop(id)
\* that has returned and the next start of a loop no tick of id starts.
C13_NoTickAfterStop ==
    [][\A k \in TickSlots :
          (ticks[k].pc = "idle" /\ ticks'[k].pc # "idle") =>
             isRunning(ticks'[k].agentId)]_vars

\* Everything the scheduler and the store hold for agent b is the same after the step.
Untouched(b) ==
    /\ isRunning(b)' = isRunning(b)
    /\ isRunning(b) => activeExecutors'[b] = activeExecutors[b]
    /\ TimersOf(b)' = TimersOf(b)
    /\ \A h \in TimersOf(b) : timers'[h] = timers[h]
    /\ findById(b)' = findById(b)
    /\ MapHas(actionsStore, b)' = MapHas(actionsStore, b)
    /\ MapHas(actionsStore, b) => actionsStore'[b] = actionsStore[b]

\* C14: a step that stops agent a's loop (pause, error or terminate of a, all through
\* stop) leaves every other agent's handle, timer and period, record and log unchanged.
C14_StopLeavesOthers ==
    [][\A a \in AgentIds :
          (isRunning(a) /\ ~isRunning(a)') =>
             \A b \in AgentIds \ {a} : Untouched(b)]_vars

\* A's loop was stopped by a completed transition while B is active with its loop.
C14_Witness ==
    \E r \in Requesters :
        /\ req[r].pc = "done"
        /\ req[r].newStatus \in {"paused", "error", "terminated"}
        /\ req[r].agent # Null
        /\ HasNoLoop(req[r].agentId)
        /\ \E b \in AgentIds \ {req[r].agentId} :
              StoredStatus(b) = "active" /\ HasOneLoop(b)

\* A tick of the stuck agent is waiting for its dispatch.
DispatchPending ==
    \E k \in TickSlots : ticks[k].agentId = StuckAgent /\ ticks[k].pc = "executed"

\* Agent b is active with a running loop and a connection, and has not acted yet.
ReadyToAct(b) ==
    /\ StoredStatus(b) = "active"
    /\ HasOneLoop(b)
    /\ agentsStore[b].minecraftBotId \in bots
    /\ agentsStore[b].actionCount = 0

\* C15: while a dispatch of the stuck agent never returns, every other active agent with
\* a running loop gets a tick started and completed: its action counter advances.
C15_StuckTickBlocksNoOne ==
    \A b \in AgentIds \ {StuckAgent} :
        (DispatchPending /\ ReadyToAct(b)) ~>
            (MapHas(agentsStore, b) /\ agentsStore[b].actionCount >= 1)

\* The other agent has acted while the stuck agent's dispatch is still pending.
C15_Witness ==
    /\ DispatchPending
    /\ \E b \in AgentIds \ {StuckAgent} :
          /\ MapHas(agentsStore, b)
          /\ agentsStore[b].actionCount >= 1
          /\ Len(actionsStore[b]) >= 1
          /\ InFlight(b) = {}

\* The tick in slot k makes its counter update in this step and the update succeeds.
TickCompletes(k) ==
    /\ ticks[k].pc = "logged"
    /\ ticks'[k] = IdleTick
    /\ MapHas(agentsStore, ticks[k].agentId)

C19_NoOrphanEntries ==
    \A a \in DOMAIN actionsStore : MapHas(agentsStore, a)

\* C20: the record a findById returns in any state has both fields of a tick's update
\* (lastActionAt and actionCount) or neither: no state between the two exists.
C20_UpdateIsAtomic ==
    \A a \in DOMAIN agentsStore :
        (agentsStore[a].lastActionAt = Null) <=> (agentsStore[a].actionCount = 0)

\* A tick still holds the record it read before an update that has since been applied
\* in full.
C20_Witness ==
    \E k \in TickSlots :
        /\ ticks[k].pc # "idle"
        /\ ticks[k].cur # Null
        /\ ticks[k].cur[1].actionCount = 0
        /\ MapHas(agentsStore, ticks[k].agentId)
        /\ agentsStore[ticks[k].agentId].actionCount = 1
        /\ agentsStore[ticks[k].agentId].lastActionAt # Null

\* C17: create for an id that has a record is rejected, and the record and its log stay
\* as they were.
C17_DuplicateRejected ==
    [][\A a \in AgentIds, b \in BotIds :
          (ApiCreate(a, b) /\ MapHas(agentsStore, a)) =>
             /\ api'.result # "ok"
             /\ UNCHANGED <<agentsStore, actionsStore>>]_vars

\* C18: update of an unknown id throws and changes no record; update of a stored id
\* leaves a record with exactly the fields of data replaced, every other field and every
\* other record unchanged.
C18_UpdateMerges ==
    [][\A a \in AgentIds, d \in UpdateData :
          ApiUpdate(a, d) =>
             IF ~MapHas(agentsStore, a)
             THEN /\ api'.result = "thrown"
                  /\ UNCHANGED agentsStore
             ELSE /\ api'.result = "ok"
                  /\ DOMAIN agentsStore' = DOMAIN agentsStore
                  /\ \A x \in DOMAIN agentsStore \ {a} : agentsStore'[x] = agentsStore[x]
                  /\ DOMAIN agentsStore'[a] = DOMAIN agentsStore[a]
                  /\ \A f \in DOMAIN agentsStore[a] :
                        agentsStore'[a][f] = IF f \in DOMAIN d THEN d[f]
                                             ELSE agentsStore[a][f]]_vars

\* A two-field update has been merged into a record created by createAgent.
C18_Witness ==
    /\ api.op = "update"
    /\ api.result = "ok"
    /\ MapHas(agentsStore, api.agentId)
    /\ agentsStore[api.agentId].status = "error"
    /\ agentsStore[api.agentId].actionCount = 1
    /\ agentsStore[api.agentId].profile = "confuser"
    /\ agentsStore[api.agentId].lastActionAt = Null
    /\ agentsStore[api.agentId].minecraftBotId \in BotIds


\* A stored agent satisfies a filter when it matches every member the filter carries.
Satisfies(agent, filters) ==
    /\ filters.status # Null => agent.status = filters.status[1]
    /\ filters.profile # Null => agent.profile = filters.profile[1]

NewestFirst(s, key) == \A i, j \in 1..Len(s) : i < j => s[i][key] >= s[j][key]

\* C21: findAll(filter) returns exactly the stored agents that satisfy every predicate
\* the filter carries (status and profile together, an absent one matching all), each
\* once, ordered by spawnedAt with the newest first.
C21_FindAllExact ==
    [][\A f \in Filters : ApiFindAll(f) =>
          LET v == api'.value
              matching == {a \in DOMAIN agentsStore : Satisfies(agentsStore[a], f)}
          IN /\ {v[i] : i \in 1..Len(v)} = {agentsStore[a] : a \in matching}
             /\ Len(v) = Cardinality(matching)
             /\ NewestFirst(v, "spawnedAt")]_vars

CountAt(s, t) == Cardinality({i \in 1..Len(s) : s[i].timestamp = t})
CountAfter(s, t) == Cardinality({i \in 1..Len(s) : s[i].timestamp > t})
Least(m, n) == IF m < n THEN m ELSE n

\* C22: findActions(agentId, N) with a count N >= 0 returns at most N entries, all of
\* agentId, ordered by timestamp newest first, and they are the N newest entries of the
\* agent's log (the whole log when it has fewer than N): of the entries stamped t it
\* returns as many as are left of N after every later entry has been returned.
C22_FindActionsNewest ==
    [][\A a \in AgentIds, n \in Limits : (n >= 0 /\ ApiFindActions(a, n)) =>
          LET v == api'.value
              log == IF MapHas(actionsStore, a) THEN actionsStore[a] ELSE <<>>
              k == Least(n, Len(log))
          IN /\ Len(v) <= n
             /\ Len(v) = k
             /\ \A i \in 1..Len(v) : v[i].agentId = a
             /\ NewestFirst(v, "timestamp")
             /\ \A t \in 0..MaxTime :
                   LET left == IF k > CountAfter(log, t) THEN k - CountAfter(log, t) ELSE 0
                   IN CountAt(v, t) = Least(CountAt(log, t), left)]_vars

\* A log of two entries with different timestamps was listed with N = 1 and the later
\* entry came back.
C22_Witness ==
    /\ api.op = "findActions"
    /\ api.arg = 1
    /\ Len(api.value) = 1
    /\ MapHas(actionsStore, api.agentId)
    /\ Len(actionsStore[api.agentId]) = 2
    /\ \E i \in 1..2 : actionsStore[api.agentId][i].timestamp < api.value[1].timestamp

Lists(issues, issue) == \E i \in 1..Len(issues) : issues[i] = issue[1]

\* C23: getHealthStatus reports unhealthy, with one issue per reason, exactly when the
\* record it read does not exist, or the agent's connection is not found, or the status
\* is active and the scheduler has no loop for the agent, or the status is active and
\* more than five minutes have passed since lastActionAt; otherwise it reports healthy
\* with no issues.
C23_HealthReasons ==
    [][HealthReport =>
          LET found == health.agent
              issues == health'.issues
              missing == found = Null
              noConnection == found # Null /\ found[1].minecraftBotId \notin bots
              noLoop == /\ found # Null
                        /\ found[1].status = "active"
                        /\ ~MapHas(activeExecutors, health.agentId)
              stale == /\ found # Null
                       /\ found[1].status = "active"
                       /\ found[1].lastActionAt # Null
                       /\ (now - found[1].lastActionAt[1]) * MinutesPerStep > StaleMinutes
          IN /\ health'.healthy <=> ~(missing \/ noConnection \/ noLoop \/ stale)
             /\ health'.healthy <=> issues = <<>>
             /\ Lists(issues, NotFound) <=> missing
             /\ Lists(issues, NoBot) <=> noConnection
             /\ Lists(issues, NotRunning) <=> noLoop
             /\ Lists(issues, NoActions) <=> stale]_vars

\* A check of an active agent with its connection and its loop in place found only
\* that it had not acted for more than five minutes.
C23_Witness ==
    /\ health.pc = "done"
    /\ ~health.healthy
    /\ health.issues = NoActions

\* C24: getHealthStatus is read-only: neither of its steps changes an agent record, an
\* action log, the scheduler's maps or a connection, so a missing loop stays missing.
C24_HealthReadOnly ==
    [][((\E a \in AgentIds : HealthFind(a)) \/ HealthReport) =>
          UNCHANGED <<agentsStore, actionsStore, activeExecutors, timers, bots>>]_vars

\* A check reported the missing loop of an active agent, and the loop is still missing.
C24_Witness ==
    /\ health.pc = "done"
    /\ Lists(health.issues, NotRunning)
    /\ MapHas(agentsStore, health.agentId)
    /\ agentsStore[health.agentId].status = "active"
    /\ ~isRunning(health.agentId)

CleanedUp == {cleanup.agents[i] : i \in 1..Len(cleanup.agents)}

C26_UnknownProfileRejected ==
    [][/\ \A p \in RequestProfiles \ DOMAIN PROFILE_REGISTRY :
             CreateBegin(p) =>
                /\ creation'.pc = "thrown"
                /\ UNCHANGED <<agentsStore, actionsStore, activeExecutors, timers, bots>>
       /\ creation'.pc \notin {"idle", "thrown"} =>
             creation'.profile \in DOMAIN PROFILE_REGISTRY]_vars

\* A createAgent call with an unregistered identifier has failed, after earlier calls
\* had stored an agent, and has left the store, the connections and the loops alone.
C26_Witness ==
    /\ creation.pc = "thrown"
    /\ creation.profile \notin DOMAIN PROFILE_REGISTRY
    /\ agentsStore # <<>>
    /\ \A a \in DOMAIN agentsStore : agentsStore[a].profile \in DOMAIN PROFILE_REGISTRY

TickStep ==
    \/ \E h \in Handles : TimerFire(h)
    \/ \E k \in TickSlots : TickSelect(k) \/ TickLog(k) \/ TickUpdate(k)

\* C27: the period of every loop is 60000 / ((min + max) / 2) milliseconds for the
\* action-frequency range of the agent's profile, as set when the loop was started
\* ({min: 3, max: 9} gives 10000), and no step of a tick changes the period of a loop.
C27_FixedPeriod ==
    [][/\ \A h \in DOMAIN timers' :
             LET frequency == PROFILE_REGISTRY[timers'[h].profile]
                 sum == frequency.minActionsPerMinute + frequency.maxActionsPerMinute
             IN timers'[h].period.num * sum = 2 * 60000 * timers'[h].period.den
       /\ SameNumber(calculateInterval([minActionsPerMinute |-> 3,
                                        maxActionsPerMinute |-> 9]),
                     Ratio(10000, 1))
       /\ TickStep => UNCHANGED timers]_vars

\* An agent of the cooperative profile (3 to 6 actions per minute) has completed a tick
\* and its loop runs with the period 60000 / 4.5 ms, which is not a whole number.
C27_Witness ==
    \E h \in DOMAIN timers :
        /\ timers[h].profile = "cooperative"
        /\ timers[h].period.num * 9 = 120000 * timers[h].period.den
        /\ timers[h].period.num % timers[h].period.den # 0
        /\ MapHas(agentsStore, timers[h].agentId)
        /\ agentsStore[timers[h].agentId].actionCount >= 1

\* The conditions on one profile definition (ignoreRate in hundredths).
ValidDefinition(d) ==
    /\ d.minActionsPerMinute <= d.maxActionsPerMinute
    /\ d.responsePatterns.responseDelay.min <= d.responsePatterns.responseDelay.max
    /\ 0 <= d.responsePatterns.ignoreRate /\ d.responsePatterns.ignoreRate <= 100
    /\ Len(d.minecraftBehaviors) > 0
    /\ Len(d.discordBehaviors) > 0

\* C28: every definition the registry hands out, by getProfile for a registered
\* identifier or by getAllProfiles, has min <= max actions per minute, responseDelay
\* min <= max, an ignoreRate between 0 and 1 and two non-empty action lists.
C28_DefinitionsValid ==
    api.op \in {"getProfile", "getAllProfiles"} =>
        \A i \in 1..Len(api.value) : ValidDefinition(api.value[i])

\* getAllProfiles has returned the six definitions.
C28_Witness ==
    /\ api.op = "getAllProfiles"
    /\ Len(api.value) = 6
    /\ {api.value[i].name : i \in 1..6} = RegistryKeys

\* C29: profileExists is true for the six registered identifiers and false for every
\* other string; getProfile of a registered identifier is the definition with that
\* name; getAllProfiles returns the six registered definitions, each once.
C29_RegistryLookup ==
    /\ api.op = "profileExists" => (api.value[1] <=> api.arg \in RegistryKeys)
    /\ api.op = "getProfile" => api.value[1].name = api.arg
    /\ api.op = "getAllProfiles" =>
          /\ Len(api.value) = 6
          /\ {api.value[i] : i \in 1..Len(api.value)}
                = {PROFILE_REGISTRY[p] : p \in RegistryKeys}

\* A step in which the status change of caller r performs one of its side effects.
SideEffectStep(r) ==
    \/ TransitionSideEffect(r)
    \/ TransitionDisconnect(r)
    \/ (TerminateStop(r) /\ req[r].agent # Null)
    \/ TerminateDisconnect(r)

\* C30: in every lifecycle transition the new status is written to the store before
\* any side effect of the transition: whenever a transition stops or starts a loop or
\* disconnects a connection, the store already holds the requested status for the
\* agent, so an interruption there leaves no side effect without the status.
C30_StatusWrittenFirst ==
    [][\A r \in Requesters :
          SideEffectStep(r) =>
             /\ MapHas(agentsStore, req[r].agentId)
             /\ agentsStore[req[r].agentId].status = req[r].newStatus]_vars

\* A step of caller r's transitionStatus call to newStatus paused or error.
QuietTransitionStep(r) ==
    /\ req'[r] # req[r]
    /\ req[r].pc \in {"found", "updated"}
    /\ req[r].newStatus \in {"paused", "error"}

\* C31: a transition to error or to paused records the status and stops the agent's
\* loop and never changes a connection; a step of a transition that changes the
\* connections belongs to a transition to terminated.
C31_OnlyTerminateDisconnects ==
    [][\A r \in Requesters :
          /\ QuietTransitionStep(r) =>
                /\ bots' = bots
                /\ (req[r].pc = "found" /\ req'[r].pc = "updated") =>
                      agentsStore'[req[r].agentId].status = req[r].newStatus
                /\ req[r].pc = "updated" =>
                      /\ ~MapHas(activeExecutors', req[r].agentId)
                      /\ isRunning(req[r].agentId) =>
                            activeExecutors[req[r].agentId] \notin DOMAIN timers'
          /\ (req'[r] # req[r] /\ bots' # bots) => req[r].newStatus = "terminated"]_vars

\* A transition to error has completed: the status is stored, the loop is gone and the
\* agent's connection is still there.
C31_Witness ==
    \E r \in Requesters :
        /\ req[r].pc = "done"
        /\ req[r].newStatus = "error"
        /\ StoredStatus(req[r].agentId) = "error"
        /\ HasNoLoop(req[r].agentId)
        /\ req[r].agent[1].minecraftBotId \in bots

\* Every stored record is still stored and keeps all its fields outside `fields`.
SameExcept(fields) ==
    /\ DOMAIN agentsStore' = DOMAIN agentsStore
    /\ \A a \in DOMAIN agentsStore :
          /\ DOMAIN agentsStore'[a] = DOMAIN agentsStore[a]
          /\ \A f \in (DOMAIN agentsStore[a]) \ fields :
                agentsStore'[a][f] = agentsStore[a][f]

\* C32: a step of a tick changes no field of a stored record other than lastActionAt
\* and actionCount, so it never changes a status, also when it lands after the agent
\* was paused, terminated or put in error; a step of a lifecycle transition changes no
\* field other than status.
C32_WritersKeepTheirFields ==
    [][/\ ticks' # ticks => SameExcept({"lastActionAt", "actionCount"})
       /\ req' # req => SameExcept({"status"})]_vars

\* A tick's counter write has landed on a record that was not active any more: a later
\* tick, still at its findById, read the stopped status and the old count, and the
\* stored record now has the higher count under the same status.
C32_Witness ==
    \E k \in TickSlots :
        /\ ticks[k].pc = "found"
        /\ ticks[k].cur # Null
        /\ ticks[k].cur[1].status \in {"paused", "terminated", "error"}
        /\ MapHas(agentsStore, ticks[k].agentId)
        /\ agentsStore[ticks[k].agentId].status = ticks[k].cur[1].status
        /\ agentsStore[ticks[k].agentId].actionCount > ticks[k].cur[1].actionCount
        /\ agentsStore[ticks[k].agentId].lastActionAt # Null

Tags(behaviors) == {behaviors[i] : i \in 1..Len(behaviors)}

\* The tick in slot k appends its log entry in this step.
LogStep(k) == ticks[k].pc = "executed" /\ ticks'[k].pc = "logged"

\* C33: the entry a tick appends goes to the log of the ticking agent, names that agent
\* as its owner, and carries a tag from minecraftBehaviors of the agent's profile, which
\* is neither a tag of the profile's discordBehaviors nor a behaviour of another profile;
\* the step changes no other log.
C33_LoggedTagFromProfile ==
    [][\A k \in TickSlots :
          LogStep(k) =>
             LET a == ticks[k].agentId
                 log == actionsStore'[a]
                 entry == log[Len(log)]
                 profile == agentsStore[a].profile
             IN /\ log = Append(actionsStore[a], entry)
                /\ \A b \in (DOMAIN actionsStore) \ {a} : actionsStore'[b] = actionsStore[b]
                /\ entry.agentId = a
                /\ entry.actionType \in Tags(getProfile(profile).minecraftBehaviors)
                /\ entry.actionType \notin Tags(getProfile(profile).discordBehaviors)
                /\ \A p \in RegistryKeys \ {profile} :
                      entry.actionType \notin Tags(getProfile(p).minecraftBehaviors)]_vars

\* Two agents of different profiles have each logged a tick.
C33_Witness ==
    \E a, b \in DOMAIN agentsStore :
        /\ agentsStore[a].profile # agentsStore[b].profile
        /\ Len(actionsStore[a]) > 0
        /\ Len(actionsStore[b]) > 0

\* C34: a createAgent call whose createBot resolves with a failure writes nothing: the
\* steps that take the call to the connection attempt and from there to the reported
\* failure leave the agent records, the action logs, the generated ids and the
\* scheduler's timers and handle map as they were.
C34_FailedConnectWritesNothing ==
    [][(creation' # creation /\ creation'.pc \in {"connecting", "failed"}) =>
          UNCHANGED <<agentsStore, actionsStore, order, usedIds, activeExecutors, timers>>]_vars

\* A createAgent call has reported the connection failure while the one agent created
\* before it is stored with its loop, and nothing else is.
C34_Witness ==
    /\ creation.pc = "failed"
    /\ Cardinality(usedIds) = 1
    /\ DOMAIN agentsStore = usedIds
    /\ DOMAIN activeExecutors = usedIds
    /\ Cardinality(DOMAIN timers) = 1

\* Both callers have a completed call on agent a, neither collected yet: the later of
\* the two was made while the earlier was in progress.
BothCompleted(a) ==
    \A r \in Requesters : req[r].pc = "done" /\ req[r].agentId = a

AllCompleted ==
    /\ creation.pc \in {"idle", "thrown", "failed"}
    /\ \A r \in Requesters : req[r].pc \in {"idle", "done", "thrown"}

\* C36: with createAgent and transitionStatus calls made one at a time, whenever the
\* call made last has completed, every agent has exactly one running loop if its stored
\* status is active and no loop otherwise.
C36_SerialTransitionsConsistent ==
    AllCompleted =>
       \A a \in AgentIds :
           IF StoredStatus(a) = "active" THEN HasOneLoop(a) ELSE HasNoLoop(a)

\* A resume has completed and its agent has one loop; the other agent was stopped
\* before and has none.
C36_Witness ==
    \E r \in Requesters :
        /\ req[r].pc = "done"
        /\ req[r].newStatus = "active"
        /\ req[r].prev = Null
        /\ StoredStatus(req[r].agentId) = "active"
        /\ HasOneLoop(req[r].agentId)
        /\ \E b \in AgentIds \ {req[r].agentId} :
              StoredStatus(b) \in {"paused", "terminated", "error"} /\ HasNoLoop(b)

C38_StampIffCounted ==
    \A a \in DOMAIN agentsStore :
        agentsStore[a].lastActionAt = Null <=> agentsStore[a].actionCount = 0

\* One agent has completed a tick and carries a timestamp and a count; another has not
\* acted and carries neither.
C38_Witness ==
    \E a, b \in DOMAIN agentsStore :
        /\ agentsStore[a].lastActionAt # Null
        /\ agentsStore[a].actionCount > 0
        /\ agentsStore[b].lastActionAt = Null
        /\ agentsStore[b].actionCount = 0

\* Agent a is stored as active, its loop is registered and its connection is in place.
ActiveWithLoop(a) ==
    /\ StoredStatus(a) = "active"
    /\ HasOneLoop(a)
    /\ \A h \in TimersOf(a) : timers[h].minecraftBotId \in bots

\* A tick of agent a has completed: its entry is in the log and its count is above 0.
TickDone(a) ==
    /\ MapHas(actionsStore, a) /\ Len(actionsStore[a]) >= 1
    /\ MapHas(agentsStore, a) /\ agentsStore[a].actionCount >= 1

\* C39: with every expired interval and every resolved continuation run, an agent that
\* stays active with its loop and its connection eventually has a log entry appended
\* and its actionCount raised.
C39_ActiveAgentTicks == ActiveWithLoop(LiveAgent) ~> TickDone(LiveAgent)

\* The watched agent has completed a tick while still active with its loop and its
\* connection, and the other agent has a tick in flight.
C39_Witness ==
    /\ ActiveWithLoop(LiveAgent)
    /\ TickDone(LiveAgent)
    /\ \E a \in AgentIds \ {LiveAgent} : InFlight(a) # {}

\* C40: every interval handle the scheduler holds belongs to an agent id that has a
\* record in the store, so that removing a record never leaves a loop registered for
\* its id.
C40_TimersHaveRecords ==
    /\ \A h \in DOMAIN timers : MapHas(agentsStore, timers[h].agentId)
    /\ \A a \in DOMAIN activeExecutors : MapHas(agentsStore, a)
====
